---- MODULE Spec2Model ----
(***************************************************************************)
(* Sarah-Engine: the Fanvue webhook listener (listener.py) and the reply   *)
(* generator (brain.py), over the fan_lore and messages tables (models.py).*)
(*                                                                         *)
(* Text is a sequence of tokens (words, " ", "\n", "*"); identifiers,      *)
(* header fields and request bodies are strings.  Python's None is the     *)
(* string NONE for identifiers and the text NoneText for texts.            *)
(***************************************************************************)
EXTENDS Integers, Sequences, FiniteSets, TLC

VARIABLES
    now,          \* time.time(), in seconds
    SIGNING_SECRET, \* listener.py:136, read from the environment at start
    config,       \* brain.py:22-23, config.yaml as loaded at start
    calls,        \* the calls that read or write token_cache, in starting order
    req,          \* the webhook requests received so far, in arrival order
    resp,         \* resp[i]: HTTP status returned for req[i]
    pc,           \* pc[i]: position of the process_message task of req[i]
    err,          \* err[i]: class of the exception process_message caught
    conn,         \* conn[i]: the task's database connection
    lore,         \* lore[i]: the fan_lore row the task fetched
    chat_history, \* chat_history[i]: listener.py:296
    updated_lore, \* updated_lore[i]: listener.py:304
    reply_text,   \* reply_text[i]: listener.py:329
    llm,          \* llm[i]: what the completion backend answered to the task
    fan_lore,     \* table fan_lore: a set of rows
    messages,     \* table messages: a set of rows
    timeline,     \* the database's time points in use, oldest first
    token_cache,  \* listener.py:155
    sent,         \* replies accepted or refused by the platform, in order
    propagated    \* exceptions that left process_message uncaught

vars == << now, SIGNING_SECRET, config, calls, req, resp, pc, err, conn, lore, chat_history,
           updated_lore, reply_text, llm, fan_lore, messages, timeline,
           token_cache, sent, propagated >>

----------------------------------------------------------------------------
(* Bounds of the model *)

MaxRequests == 2

----------------------------------------------------------------------------
(* Python values and text helpers *)

NONE == "None"
NoneText == << "<None>" >>
EmptyText == << >>

Whitespace == { " ", "\n", "\t" }

RECURSIVE LStrip(_)
LStrip(s) ==
    IF s # << >> /\ Head(s) \in Whitespace THEN LStrip(Tail(s)) ELSE s

RECURSIVE RStrip(_)
RStrip(s) ==
    IF s # << >> /\ s[Len(s)] \in Whitespace
    THEN RStrip(SubSeq(s, 1, Len(s) - 1)) ELSE s

\* str.strip()
Strip(s) == RStrip(LStrip(s))

\* \w+: the token is a word
IsWord(t) == t \notin Whitespace \cup { "*", ",", "Fan Name:", "fan name:", "<None>" }

\* sub in s
Contains(s, sub) ==
    \E i \in 1 .. (Len(s) - Len(sub) + 1) : SubSeq(s, i, i + Len(sub) - 1) = sub

\* s[:n] raises TypeError on None
Subscriptable(s) == s # NoneText

\* a or b
PyOr(a, b) == IF a \in { NONE, "" } THEN b ELSE a
PyOrText(a, b) == IF a \in { NoneText, EmptyText } THEN b ELSE a

----------------------------------------------------------------------------
(* verify_signature, listener.py:187-209 *)

\* the secret the platform signs with; os.getenv gives None when it is unset
FANVUE_WEBHOOK_SECRET == "whsec"
ReplayWindow == 300

\* int(timestamp): the numeric strings of the model; anything else raises
IntTable ==
    { << "699", 699 >>, << "700", 700 >>, << "1000", 1000 >>,
      << "1300", 1300 >>, << "1301", 1301 >> }
IsNumeric(s) == \E p \in IntTable : p[1] = s
ParseInt(s) == (CHOOSE p \in IntTable : p[1] = s)[2]

Abs(n) == IF n < 0 THEN -n ELSE n

\* hmac.new(key, msg, sha256).hexdigest(), collision-free
HmacSha256(key, msg) == "hmac[" \o key \o "|" \o msg \o "]"

\* dict(x.split('=') for x in header.split(',')): every element must have
\* exactly two fields, else ValueError
DictOk(header) == \A i \in 1 .. Len(header) : Len(header[i]) = 2
\* parts.get(k): the last element with key k wins, None when absent
DictGet(header, k) ==
    LET idx == { i \in 1 .. Len(header) : header[i][1] = k }
    IN  IF idx = { } THEN NONE
        ELSE header[CHOOSE i \in idx : \A j \in idx : j <= i][2]

\* (mutant) the age of the timestamp is not checked
SignatureCheckNoWindow(payload, header, t_now, secret) ==
    IF ~DictOk(header) THEN "ValueError"
    ELSE LET timestamp == DictGet(header, "t")
             received_sig == DictGet(header, "v0")
         IN  IF timestamp \in { NONE, "" } \/ received_sig \in { NONE, "" }
             THEN "False"
             ELSE IF ~IsNumeric(timestamp) THEN "ValueError"
             ELSE IF secret = NONE THEN "AttributeError"
             ELSE IF HmacSha256(secret, timestamp \o "." \o payload) = received_sig
                  THEN "True" ELSE "False"
\* the try block of verify_signature, listener.py:190-206: what it returns,
\* or the class of the exception it raises
SignatureCheck(payload, header, t_now, secret) ==
    IF ~DictOk(header) THEN "ValueError"
    ELSE LET timestamp == DictGet(header, "t")
             received_sig == DictGet(header, "v0")
         IN  IF timestamp \in { NONE, "" } \/ received_sig \in { NONE, "" }
             THEN "False"
             ELSE IF ~IsNumeric(timestamp) THEN "ValueError"
             ELSE IF Abs(t_now - ParseInt(timestamp)) > ReplayWindow THEN "False"
             ELSE IF secret = NONE THEN "AttributeError"
             ELSE IF HmacSha256(secret, timestamp \o "." \o payload) = received_sig
                  THEN "True" ELSE "False"

\* (mutant) except ValueError
VerifyCaughtValueError(exc) == exc = "ValueError"
\* except Exception, listener.py:207
VerifyCaught(exc) == exc \in { "ValueError", "AttributeError", "TypeError" }

\* verify_signature raises
VerifyRaises(payload, header, t_now) ==
    LET out == SignatureCheck(payload, header, t_now, SIGNING_SECRET)
    IN  out \notin { "True", "False" } /\ ~VerifyCaught(out)

\* verify_signature returns True; a caught exception returns False
VerifySignature(payload, header, t_now) ==
    SignatureCheck(payload, header, t_now, SIGNING_SECRET) = "True"

----------------------------------------------------------------------------
(* Webhook requests: header X-Fanvue-Signature and raw body *)

\* request.headers.get(...) is None
NoHeader == << >>
\* "".split(',') == ['']
EmptyHeader == << << "" >> >>

Fields(sender_uuid, userId, message_text, text, message_uuid, id, chat_uuid, chatId) ==
    [ sender_uuid |-> sender_uuid, userId |-> userId,
      message_text |-> message_text, text |-> text,
      message_uuid |-> message_uuid, id |-> id,
      chat_uuid |-> chat_uuid, chatId |-> chatId ]
NoFields == Fields(NONE, NONE, NoneText, NoneText, NONE, NONE, NONE, NONE)

\* {"type": ..., "data": {"sender": {"uuid"}, "message": {"text", "uuid"}, "chat": {"uuid"}}}
NestedEvent(type, fan, text, id, chat) ==
    [ type |-> type, has_data |-> TRUE, top |-> NoFields,
      data |-> Fields(fan, NONE, text, NoneText, id, NONE, chat, NONE) ]
\* {"type": ..., "userId": ..., "text": ..., "id": ..., "chatId": ...}
FlatEvent(type, fan, text, id, chat) ==
    [ type |-> type, has_data |-> FALSE, data |-> NoFields,
      top |-> Fields(NONE, fan, NoneText, text, NONE, id, NONE, chat) ]

\* a message.received event of fan f1 in chat c1
MessageBody(text, id) ==
    [ kind |-> "object", event |-> NestedEvent("message.received", "f1", text, id, "c1") ]

\* What the raw bodies of the model decode and parse to.
BodyTable ==
    [ e1 |-> [ kind |-> "object",
               event |-> NestedEvent("message.received", "f1", << "hi" >>, "m1", "c1") ],
      e1b |-> [ kind |-> "object",
                event |-> FlatEvent("message.created", "f1", << "yo" >>, "m1", "c1") ],
      e2 |-> [ kind |-> "object",
               event |-> NestedEvent("message.recieved", "f2", << "badtopic" >>, "m2", "c2") ],
      e_notext |-> [ kind |-> "object",
                     event |-> NestedEvent("message.received", "f1", NoneText, "m3", "c1") ],
      e_other |-> [ kind |-> "object",
                    event |-> NestedEvent("follower.created", "f1", << "hi" >>, "m4", "c1") ],
      e_notype |-> [ kind |-> "object",
                     event |-> NestedEvent(NONE, "f1", << "hi" >>, "m4", "c1") ],
      e_upper |-> [ kind |-> "object",
                    event |-> NestedEvent("message.received", "f1", << "BadTopic" >>, "m5", "c1") ],
      e_age |-> [ kind |-> "object",
                  event |-> NestedEvent("message.received", "f1",
                                        << "15", " ", "sexy" >>, "m6", "c1") ],
      e_agefar |-> [ kind |-> "object",
                     event |-> NestedEvent("message.received", "f1",
                                           << "15", " ", "filler60", " ", "sexy" >>, "m7", "c1") ],
      e_name |-> [ kind |-> "object",
                   event |-> NestedEvent("message.received", "f1",
                                         << "I'm", " ", "jay" >>, "m8", "c1") ],
      e_old |-> [ kind |-> "object",
                  event |-> NestedEvent("message.received", "f1", << "old1" >>, "h1", "c1") ],
      t_mentions |-> MessageBody(<< "this", " ", "mentions", " ", "15", " ", "and", " ", "sex" >>, "t1"),
      t_hiking |-> MessageBody(<< "I", " ", "am", " ", "15", " ", "years", " ", "old", " ",
                                  "and", " ", "love", " ", "hiking" >>, "t2"),
      t_170 |-> MessageBody(<< "17", "0", " ", "sexy" >>, "t3"),
      t_18 |-> MessageBody(<< "18", " ", "sexy" >>, "t4"),
      t_after_in |-> MessageBody(<< "15", " ", "filler45", " ", "sex" >>, "t5"),
      t_after_out |-> MessageBody(<< "15", " ", "filler46", " ", "sex" >>, "t6"),
      t_before_in |-> MessageBody(<< "sex", " ", "filler45", " ", "15" >>, "t7"),
      t_before_out |-> MessageBody(<< "sex", " ", "filler46", " ", "15" >>, "t8"),
      t_photo |-> MessageBody(<< "photo", " ", "07" >>, "t9"),
      t_caps |-> MessageBody(<< "15", " ", "SEXY" >>, "t10"),
      t_second |-> MessageBody(<< "15", " ", "filler60", " ", "7", " ", "hot" >>, "t11"),
      t_topic |-> MessageBody(<< "about", " ", "BADTOPIC" >>, "t12"),
      e_good |-> MessageBody(<< "I'm", " ", "good" >>, "r1"),
      e_hot |-> MessageBody(<< "I'm", " ", "hot" >>, "r2"),
      e_two |-> MessageBody(<< "call", " ", "me", " ", "max", ",", " ", "I'm", " ", "jay" >>, "r3"),
      json_array |-> [ kind |-> "array", event |-> NestedEvent(NONE, NONE, NoneText, NONE, NONE) ],
      not_json |-> [ kind |-> "invalid", event |-> NestedEvent(NONE, NONE, NoneText, NONE, NONE) ],
      bad_utf8 |-> [ kind |-> "undecodable", event |-> NestedEvent(NONE, NONE, NoneText, NONE, NONE) ] ]

FanIds == { "f1", "f2" }

\* body.decode() raises UnicodeDecodeError on bytes that are not UTF-8
Decodable(body) == BodyTable[body].kind # "undecodable"
\* request.json() raises on a body that is not JSON
IsJson(body) == BodyTable[body].kind \in { "object", "array" }
\* event_data.get raises AttributeError unless the JSON value is an object
IsObject(body) == BodyTable[body].kind = "object"
Event(body) == BodyTable[body].event

\* A header the platform would send for this body at time t
SignedHeader(body, t) ==
    << << "t", t >>, << "v0", HmacSha256(FANVUE_WEBHOOK_SECRET, t \o "." \o body) >> >>

Request(header, body) == [ signature |-> header, body |-> body ]

\* The requests the environment sends.
Requests ==
    { Request(SignedHeader(b, "1000"), b) :
        b \in { "e1", "e1b", "e2", "e_notext", "e_other", "e_notype",
                "json_array", "not_json" } }
    \cup { Request(NoHeader, "e1"), Request(NoHeader, "bad_utf8"),
           Request(EmptyHeader, "e1"),
           Request(SignedHeader("e1", "699"), "e1"),
           Request(SignedHeader("e2", "1000"), "e1"),
           Request(<< << "t", "1000" >>, << "v0" >> >>, "e1") }

\* (mutant) only the correctly spelt types
MessageEventTypesSpeltRight == { "message.received", "message.created" }
\* listener.py:395
MessageEventTypes == { "message.received", "message.created", "message.recieved" }

----------------------------------------------------------------------------
(* brain.py: safety filter *)

\* str.lower() on the tokens of the model
LowerTable ==
    { << "Cutie", "cutie" >>, << "Babe", "babe" >>, << "Good", "good" >>,
      << "Looking", "looking" >>, << "Jay", "jay" >>, << "Hey", "hey" >>,
      << "Fan Name:", "fan name:" >>, << "Unknown", "unknown" >>,
      << "I'm", "i'm" >>, << "BadTopic", "badtopic" >>,
      << "BADTOPIC", "badtopic" >>, << "SEXY", "sexy" >>, << "I", "i" >>,
      << "Max", "max" >>, << "Call", "call" >> }
LowerTok(t) ==
    IF \E p \in LowerTable : p[1] = t
    THEN (CHOOSE p \in LowerTable : p[1] = t)[2] ELSE t
Lower(s) == [ i \in 1 .. Len(s) |-> LowerTok(s[i]) ]
\* str.capitalize() of a lowercased word
CapitalizeTable ==
    { << "jay", "Jay" >>, << "hey", "Hey" >>, << "cutie", "Cutie" >>,
      << "max", "Max" >>, << "good", "Good" >>, << "hot", "Hot" >>,
      << "babe", "Babe" >> }
Capitalize(t) ==
    IF \E p \in CapitalizeTable : p[1] = t
    THEN (CHOOSE p \in CapitalizeTable : p[1] = t)[2] ELSE t

\* config.yaml: the blocked topics it lists
Config(topics) == [ blocked_topics |-> topics ]
ConfigYaml == Config({ << "badtopic" >> })
\* config["content_filters"]["blocked_topics"]
blocked_topics == config.blocked_topics
\* config["content_filters"]["safe_responses"]
safe_responses == { << "not", " ", "my", " ", "vibe" >>, << "lets", " ", "talk", " ", "fun" >> }

\* the numerals (0?[0-9]|1[0-7]) matches in full
AgeTokens == { "0", "5", "7", "07", "15", "17" }
\* where the terms of inappropriate_contexts occur in the tokens of the
\* model: << token, offset, length >>
TermTable ==
    { << "sex", 0, 3 >>, << "sexy", 0, 3 >>, << "sexy", 0, 4 >>,
      << "hot", 0, 3 >>, << "photo", 1, 3 >>, << "class", 2, 3 >>,
      << "nude", 0, 4 >> }
\* len(token): one character unless listed
WidthTable ==
    { << "filler40", 40 >>, << "filler45", 45 >>, << "filler46", 46 >>,
      << "filler60", 60 >>,
      << "07", 2 >>, << "15", 2 >>, << "17", 2 >>, << "18", 2 >>,
      << "sex", 3 >>, << "sexy", 4 >>, << "hot", 3 >>, << "photo", 5 >>,
      << "class", 5 >>, << "nude", 4 >> }
Width(t) ==
    IF \E p \in WidthTable : p[1] = t
    THEN (CHOOSE p \in WidthTable : p[1] = t)[2] ELSE 1
RECURSIVE CharLen(_)
CharLen(s) == IF s = << >> THEN 0 ELSE Width(Head(s)) + CharLen(Tail(s))
\* character offsets of token i: [StartOf, EndOf)
StartOf(s, i) == CharLen(SubSeq(s, 1, i - 1))
EndOf(s, i) == CharLen(SubSeq(s, 1, i))
ContextWindow == 50
\* chat_history[-5:], brain.py:298
HistoryWindow == 5
Max(a, b) == IF a >= b THEN a ELSE b
Min(a, b) == IF a <= b THEN a ELSE b

\* (mutant) the pattern has no \b: a numeral inside a longer number matches
AgeMatchAtNoBoundary(s, i) == s[i] \in AgeTokens
\* age_pattern matches token i: \b on both sides of the numeral
AgeMatchAt(s, i) ==
    /\ s[i] \in AgeTokens
    /\ i = 1 \/ ~IsWord(s[i - 1])
    /\ i = Len(s) \/ ~IsWord(s[i + 1])

\* inappropriate_term in text_lower[start:end]
TermInContext(s, start, end) ==
    \E j \in 1 .. Len(s), p \in TermTable :
        /\ s[j] = p[1]
        /\ StartOf(s, j) + p[2] >= start
        /\ StartOf(s, j) + p[2] + p[3] <= end

ContainsBlockedContent(text) ==
    LET text_lower == Lower(text)
    IN  \/ \E topic \in blocked_topics : Contains(text_lower, topic)
        \/ \E i \in 1 .. Len(text_lower) :
              /\ AgeMatchAt(text_lower, i)
              /\ TermInContext(text_lower,
                                Max(0, StartOf(text_lower, i) - ContextWindow),
                                Min(CharLen(text_lower),
                                    EndOf(text_lower, i) + ContextWindow))

----------------------------------------------------------------------------
(* brain.py: extract_fan_name, replace_preset_nickname *)

name_patterns ==
    << << "i'm" >>, << "call", " ", "me" >>, << "my", " ", "name", " ", "is" >>,
       << "name's" >>, << "i", " ", "go", " ", "by" >> >>

RECURSIVE SkipSpace(_, _)
SkipSpace(s, i) == IF i <= Len(s) /\ s[i] \in Whitespace THEN SkipSpace(s, i + 1) ELSE i

\* positions where pattern, \s+ and a word match
MatchesAt(s, pat, i) ==
    /\ i + Len(pat) - 1 <= Len(s)
    /\ SubSeq(s, i, i + Len(pat) - 1) = pat
    /\ LET k == SkipSpace(s, i + Len(pat))
       IN  k > i + Len(pat) /\ k <= Len(s) /\ IsWord(s[k])
\* re.search(pattern, s): the leftmost match's group(1), "" when none
Search(s, pat) ==
    LET hits == { i \in 1 .. Len(s) : MatchesAt(s, pat, i) }
    IN  IF hits = { } THEN ""
        ELSE s[SkipSpace(s, (CHOOSE i \in hits : \A j \in hits : i <= j) + Len(pat))]

RECURSIVE FirstPattern(_, _)
FirstPattern(s, k) ==
    IF k > Len(name_patterns) THEN ""
    ELSE IF Search(s, name_patterns[k]) # "" THEN Capitalize(Search(s, name_patterns[k]))
    ELSE FirstPattern(s, k + 1)

RECURSIVE FirstInHistory(_, _)
FirstInHistory(history, k) ==
    IF k > Len(history) THEN ""
    ELSE IF FirstPattern(Lower(history[k].content), 1) # ""
         THEN FirstPattern(Lower(history[k].content), 1)
    ELSE FirstInHistory(history, k + 1)

\* (mutant) the lore is searched before the message
ExtractFanNameLoreFirst(fan_message, lore_text, history) ==
    IF lore_text # << >> /\ FirstPattern(Lower(lore_text), 1) # ""
    THEN FirstPattern(Lower(lore_text), 1)
    ELSE IF FirstPattern(Lower(fan_message), 1) # "" THEN FirstPattern(Lower(fan_message), 1)
    ELSE FirstInHistory(history, 1)
\* extract_fan_name, brain.py:82-129
ExtractFanName(fan_message, lore_text, history) ==
    IF FirstPattern(Lower(fan_message), 1) # "" THEN FirstPattern(Lower(fan_message), 1)
    ELSE IF lore_text # << >> /\ FirstPattern(Lower(lore_text), 1) # ""
         THEN FirstPattern(Lower(lore_text), 1)
    ELSE FirstInHistory(history, 1)

preset_nicknames == << << "Cutie" >>, << "Babe" >>, << "Good", " ", "Looking" >> >>

\* str.replace(old, new): leftmost first, non-overlapping
RECURSIVE Replace(_, _, _)
Replace(s, old, new) ==
    IF s = << >> THEN << >>
    ELSE IF Len(s) >= Len(old) /\ SubSeq(s, 1, Len(old)) = old
         THEN new \o Replace(SubSeq(s, Len(old) + 1, Len(s)), old, new)
    ELSE << Head(s) >> \o Replace(Tail(s), old, new)

RECURSIVE ReplaceEach(_, _, _)
ReplaceEach(s, k, fan_name) ==
    IF k > Len(preset_nicknames) THEN s
    ELSE ReplaceEach(Replace(s, preset_nicknames[k], << fan_name >>), k + 1, fan_name)

ReplacePresetNickname(response, fan_name) ==
    IF fan_name = "" THEN response ELSE ReplaceEach(response, 1, fan_name)

----------------------------------------------------------------------------
(* brain.py: the completion backend and the two calls made to it *)

\* What requests.post to the completion endpoint can end in: a status with a
\* body, a body that is not the expected JSON, or a transport exception.
Completion(content) == [ status |-> "200", content |-> content ]
HttpError == [ status |-> "500", content |-> << >> ]
Timeout == [ status |-> "timeout", content |-> << >> ]
ConnectionError == [ status |-> "connection", content |-> << >> ]
BadBody == [ status |-> "badbody", content |-> << >> ]

NO_NEW_INFO == << "NO_NEW_INFO" >>

\* (mutant) a failed call yields the error text as new information
GenerateLoreUpdateNoFailSafe(r) ==
    IF r.status # "200" THEN << "error" >>
    ELSE IF Strip(r.content) = << >> THEN << "none" >>
    ELSE Strip(r.content)
\* generate_lore_update, brain.py:153-224
GenerateLoreUpdate(r) ==
    IF r.status # "200" THEN NO_NEW_INFO
    ELSE LET response == Strip(r.content)
         IN  IF response = NO_NEW_INFO \/ response = << >> THEN NO_NEW_INFO
             ELSE response

FallbackNon200 == << "Babe, my phone is acting up... try again in a sec? ;)" >>
FallbackTimeout == << "Babe, my phone is taking forever to load... try again later? ;)" >>
FallbackConnection == << "Babe, my internet is acting up... try again in a bit? ;)" >>
FallbackOther == << "Babe, something went wrong with my phone... try again soon? ;)" >>
Fallbacks == { FallbackNon200, FallbackTimeout, FallbackConnection, FallbackOther }

\* re.sub(r'\*[^*]+\*', '', s)
RECURSIVE NextStar(_, _)
NextStar(s, i) == IF i > Len(s) \/ s[i] = "*" THEN i ELSE NextStar(s, i + 1)
RECURSIVE StripActions(_)
StripActions(s) ==
    IF s = << >> THEN << >>
    ELSE IF Head(s) = "*" /\ NextStar(s, 2) <= Len(s) /\ NextStar(s, 2) > 2
         THEN StripActions(SubSeq(s, NextStar(s, 2) + 1, Len(s)))
    ELSE << Head(s) >> \o StripActions(Tail(s))

\* re.sub(r'\s+', ' ', s)
RECURSIVE CollapseSpace(_)
CollapseSpace(s) ==
    IF s = << >> THEN << >>
    ELSE IF Head(s) \in Whitespace
         THEN << " " >> \o CollapseSpace(SubSeq(s, SkipSpace(s, 1), Len(s)))
    ELSE << Head(s) >> \o CollapseSpace(Tail(s))

\* (mutant) the inbound message is screened only after the backend call
GenerateSarahResponseScreensLate(fan_message, lore_text, history, r, safe) ==
    IF r.status = "timeout" THEN FallbackTimeout
    ELSE IF r.status = "connection" THEN FallbackConnection
    ELSE IF r.status = "badbody" THEN FallbackOther
    ELSE IF r.status # "200" THEN FallbackNon200
    ELSE IF ContainsBlockedContent(fan_message) \/ ContainsBlockedContent(r.content) THEN safe
    ELSE ReplacePresetNickname(Strip(CollapseSpace(StripActions(r.content))),
                               ExtractFanName(fan_message, lore_text, history))
\* (mutant) the raw reply is not screened
GenerateSarahResponseUnscreened(fan_message, lore_text, history, r, safe) ==
    IF ContainsBlockedContent(fan_message) THEN safe
    ELSE IF r.status = "timeout" THEN FallbackTimeout
    ELSE IF r.status = "connection" THEN FallbackConnection
    ELSE IF r.status = "badbody" THEN FallbackOther
    ELSE IF r.status # "200" THEN FallbackNon200
    ELSE ReplacePresetNickname(Strip(CollapseSpace(StripActions(r.content))),
                               ExtractFanName(fan_message, lore_text, history))
\* (mutant) no fallback text: a failed call yields the empty reply
GenerateSarahResponseNoFallback(fan_message, lore_text, history, r, safe) ==
    IF ContainsBlockedContent(fan_message) THEN safe
    ELSE IF r.status # "200" THEN << >>
    ELSE IF ContainsBlockedContent(r.content) THEN safe
    ELSE ReplacePresetNickname(Strip(CollapseSpace(StripActions(r.content))),
                               ExtractFanName(fan_message, lore_text, history))
\* generate_sarah_response, brain.py:226-356; safe is what random.choice picks
GenerateSarahResponse(fan_message, lore_text, history, r, safe) ==
    LET fan_name == ExtractFanName(fan_message, lore_text, history)
    IN  IF ContainsBlockedContent(fan_message) THEN safe
        ELSE IF r.status = "timeout" THEN FallbackTimeout
        ELSE IF r.status = "connection" THEN FallbackConnection
        ELSE IF r.status = "badbody" THEN FallbackOther
        ELSE IF r.status # "200" THEN FallbackNon200
        ELSE IF ContainsBlockedContent(r.content) THEN safe
        ELSE ReplacePresetNickname(Strip(CollapseSpace(StripActions(r.content))), fan_name)

\* whether generate_sarah_response reaches requests.post, brain.py:320
CallsBackend(fan_message) == ~ContainsBlockedContent(fan_message)

\* system_instr, brain.py:253-294: the persona text with the fan lore in it
SystemInstr(lore_text) == << "ai_persona", "Fan Lore:" >> \o lore_text
\* chat_history[-5:]
LastMessages(history) ==
    SubSeq(history, Max(1, Len(history) - HistoryWindow + 1), Len(history))
\* formatted_messages, brain.py:296-300
FormattedMessages(fan_message, lore_text, history) ==
    << [ role |-> "system", content |-> SystemInstr(lore_text) ] >>
    \o LastMessages(history)
    \o << [ role |-> "user", content |-> fan_message ] >>

----------------------------------------------------------------------------
(* listener.py: update_fan_lore and the "Fan Name:" fact *)

\* (mutant) the new fact is put before the previous lore
UpdateFanLorePrepend(previous_lore, new_info) ==
    IF new_info = NO_NEW_INFO THEN Strip(previous_lore)
    ELSE IF previous_lore # << >> THEN Strip(new_info \o << "\n" >> \o previous_lore)
    ELSE Strip(new_info)
\* (mutant) the new fact replaces the lore instead of being appended
UpdateFanLoreOverwrite(previous_lore, new_info) ==
    IF new_info = NO_NEW_INFO THEN Strip(previous_lore) ELSE Strip(new_info)
\* update_fan_lore, listener.py:211-239
UpdateFanLore(previous_lore, new_info) ==
    IF new_info = NO_NEW_INFO THEN Strip(previous_lore)
    ELSE IF previous_lore # << >> THEN Strip(previous_lore \o << "\n" >> \o new_info)
    ELSE Strip(new_info)

\* re.search(r"Fan Name: ([^\n]+)", text): the positions it can match at
NameMatches(text) ==
    { i \in 1 .. Len(text) :
        /\ text[i] = "Fan Name:"
        /\ i + 2 <= Len(text)
        /\ text[i + 1] = " "
        /\ text[i + 2] # "\n" }
HasNameMatch(text) == NameMatches(text) # { }
RECURSIVE LineEnd(_, _)
LineEnd(text, i) == IF i > Len(text) \/ text[i] = "\n" THEN i - 1 ELSE LineEnd(text, i + 1)
\* .group(1) of the leftmost match
NameGroup(text) ==
    LET i == CHOOSE k \in NameMatches(text) : \A j \in NameMatches(text) : k <= j
    IN  SubSeq(text, i + 2, LineEnd(text, i + 2))

----------------------------------------------------------------------------
(* The database: tables fan_lore and messages (models.py), one connection    *)
(* and one transaction at a time per task (psycopg2, READ COMMITTED).        *)

\* The columns the listener reads or writes.  created_at DEFAULT now() is the
\* start time of the inserting transaction; only the order of these times is
\* observable (ORDER BY created_at), and timeline keeps that order: it lists
\* the open transactions ("txn-i") and the message rows (by id) by time.
FanRow(fan_id, name, lore_text, last_vibe) ==
    [ fan_id |-> fan_id, name |-> name, lore_text |-> lore_text,
      last_vibe |-> last_vibe ]
MessageRow(id, fan_id, role, content) ==
    [ id |-> id, fan_id |-> fan_id, role |-> role, content |-> content ]

\* cur.fetchone() is None
NoRow == FanRow(NONE, << >>, << >>, "")

TxnOf(i) == "txn-" \o ToString(i)
InTxn(tl, i) == \E k \in DOMAIN tl : tl[k] = TxnOf(i)
\* psycopg2 opens a transaction at the first statement after connect, commit
\* or rollback
Begin(tl, i) == IF InTxn(tl, i) THEN tl ELSE Append(tl, TxnOf(i))
\* the transaction ends and none of its rows remains
End(tl, i) == SelectSeq(tl, LAMBDA x : x # TxnOf(i))
\* the transaction ends and its row id keeps its start time as created_at
Stamp(tl, i, id) == [ k \in DOMAIN tl |-> IF tl[k] = TxnOf(i) THEN id ELSE tl[k] ]
\* messages.created_at, as a rank
CreatedAt(tl, id) == CHOOSE k \in DOMAIN tl : tl[k] = id

\* SELECT * FROM fan_lore WHERE fan_id = %s; fetchone()
SelectFan(tbl, fan_id) ==
    IF \E row \in tbl : row.fan_id = fan_id
    THEN CHOOSE row \in tbl : row.fan_id = fan_id
    ELSE NoRow

\* (mutant) the table has no primary key
FanLoreNoPrimaryKey(tbl, row) == row.fan_id # NONE
\* fan_lore.fan_id is the primary key: NOT NULL and unique
FanLorePrimaryKey(tbl, row) ==
    row.fan_id # NONE /\ ~\E old \in tbl : old.fan_id = row.fan_id
\* INSERT INTO fan_lore (fan_id, name, lore_text, last_vibe), listener.py:268-271
InsertFanLore(tbl, row) == tbl \cup { row }

\* messages.id is the primary key
MessagesPrimaryKey(tbl, row) == ~\E old \in tbl : old.id = row.id
\* messages.fan_id REFERENCES fan_lore.fan_id
MessagesForeignKey(fans, row) ==
    row.fan_id = NONE \/ \E f \in fans : f.fan_id = row.fan_id
\* (mutant) ON CONFLICT (id) DO UPDATE: the later delivery overwrites the row
InsertOnConflictDoUpdate(tbl, row) == { m \in tbl : m.id # row.id } \cup { row }
\* INSERT INTO messages ... ON CONFLICT (id) DO NOTHING, listener.py:277-281
InsertOnConflictDoNothing(tbl, row) ==
    IF MessagesPrimaryKey(tbl, row) THEN tbl \cup { row } ELSE tbl
\* INSERT INTO messages ..., listener.py:340-343
InsertMessage(tbl, row) == tbl \cup { row }

\* (mutant) the UPDATE has no WHERE clause
UpdateLoreTextEveryFan(tbl, fan_id, text) ==
    { [ row EXCEPT !.lore_text = text ] : row \in tbl }
\* UPDATE fan_lore SET lore_text = %s WHERE fan_id = %s, listener.py:307-311
UpdateLoreText(tbl, fan_id, text) ==
    { IF row.fan_id = fan_id THEN [ row EXCEPT !.lore_text = text ] ELSE row : row \in tbl }
\* UPDATE fan_lore SET name = %s WHERE fan_id = %s, listener.py:320-324
UpdateName(tbl, fan_id, name) ==
    { IF row.fan_id = fan_id THEN [ row EXCEPT !.name = name ] ELSE row : row \in tbl }

\* (mutant) the connection runs in autocommit: a rollback undoes nothing
RollbackKeeps(committed, working) == working
\* conn.commit(): the transaction's writes become the table
Commit(committed, working) == working
\* conn.rollback(), or closing a connection with an open transaction
Rollback(committed, working) == committed
\* the timeline after a commit that may have inserted the message row id
CommitTimeline(tl, i, id, inserted) ==
    IF inserted THEN Stamp(Begin(tl, i), i, id) ELSE End(tl, i)

HistoryLimit == 6

RECURSIVE ByCreatedAt(_, _)
ByCreatedAt(rows, tl) ==
    IF rows = { } THEN << >>
    ELSE LET first == CHOOSE x \in rows :
                         \A y \in rows : CreatedAt(tl, x.id) <= CreatedAt(tl, y.id)
         IN  << first >> \o ByCreatedAt(rows \ { first }, tl)

\* SELECT role, content FROM messages WHERE fan_id = %s ORDER BY created_at
\* DESC LIMIT 6, then reversed(), listener.py:288-296
SelectHistory(tbl, tl, fan_id) ==
    LET asc == ByCreatedAt({ m \in tbl : m.fan_id = fan_id }, tl)
        from == IF Len(asc) > HistoryLimit THEN Len(asc) - HistoryLimit + 1 ELSE 1
    IN  [ i \in 1 .. (Len(asc) - from + 1) |->
            [ role |-> asc[from + i - 1].role, content |-> asc[from + i - 1].content ] ]

\* str(uuid.uuid4()), listener.py:339: a fresh identifier per task
Uuid4(i) == "uuid-" \o ToString(i)

----------------------------------------------------------------------------
(* The task's view of its event, listener.py:245-250 *)

EventData(i) ==
    LET data == Event(req[i].body)
    IN  IF data.has_data THEN data.data ELSE data.top
FanId(i) == PyOr(EventData(i).sender_uuid, EventData(i).userId)
IncomingText(i) == PyOrText(EventData(i).message_text, EventData(i).text)
MsgId(i) == PyOr(EventData(i).message_uuid, EventData(i).id)
ChatId(i) == PyOr(EventData(i).chat_uuid, EventData(i).chatId)

Tasks == 1 .. Len(req)

\* except Exception, listener.py:368: every class the steps raise derives
\* from Exception
ExceptionClasses ==
    { "TypeError", "AttributeError", "OperationalError", "IntegrityError",
      "HTTPError", "Timeout", "KeyError" }
\* (mutant) except psycopg2.Error
CaughtDatabaseOnly(exc) == exc \in { "OperationalError", "IntegrityError" }
Caught(exc) == exc \in ExceptionClasses

\* finally, listener.py:375-380
AfterFinally(c) == IF c = "open" THEN "closed" ELSE c

\* what the run holds of its calls to brain.py: whether the two completion
\* calls failed, the fan_name of brain.py:240 and the messages of the
\* persona completion request (empty: no request)
NoLlm == [ lore_failed |-> FALSE, reply_failed |-> FALSE, fan_name |-> "", request |-> << >> ]

\* The task leaves process_message: its locals are gone.
Leave(i) ==
    /\ conn' = [ conn EXCEPT ![i] = AfterFinally(conn[i]) ]
    /\ timeline' = End(timeline, i)
    /\ lore' = [ lore EXCEPT ![i] = NoRow ]
    /\ chat_history' = [ chat_history EXCEPT ![i] = << >> ]
    /\ updated_lore' = [ updated_lore EXCEPT ![i] = << >> ]
    /\ reply_text' = [ reply_text EXCEPT ![i] = << >> ]
    /\ llm' = [ llm EXCEPT ![i] = NoLlm ]

\* (mutant) a failed run is scheduled again
RaiseRetries(i, exc) ==
    /\ pc' = [ pc EXCEPT ![i] = "Scheduled" ]
    /\ err' = [ err EXCEPT ![i] = exc ]
    /\ propagated' = propagated
    /\ Leave(i)
\* An exception raised inside the try of process_message, listener.py:368-380
Raise(i, exc) ==
    /\ pc' = [ pc EXCEPT ![i] = IF Caught(exc) THEN "Failed" ELSE "Crashed" ]
    /\ err' = [ err EXCEPT ![i] = exc ]
    /\ propagated' = IF Caught(exc) THEN propagated ELSE propagated \cup { << i, exc >> }
    /\ Leave(i)

----------------------------------------------------------------------------
(* fanvue_webhook, listener.py:382-399 *)

\* not signature
HasSignature(q) == q.signature \notin { NoHeader, EmptyHeader }

\* The HTTP status the handler answers with: an exception that leaves the
\* handler is FastAPI's 500.
WebhookStatus(q, t) ==
    IF ~Decodable(q.body) THEN 500
    ELSE IF HasSignature(q) /\ VerifyRaises(q.body, q.signature, t) THEN 500
    ELSE IF ~HasSignature(q) \/ ~VerifySignature(q.body, q.signature, t) THEN 401
    ELSE IF ~IsJson(q.body) \/ ~IsObject(q.body) THEN 500
    ELSE 200

\* background_tasks.add_task(process_message, event_data)
Schedules(q, t) ==
    WebhookStatus(q, t) = 200 /\ Event(q.body).type \in MessageEventTypes

FanvueWebhook(q) ==
    /\ Len(req) < MaxRequests
    /\ req' = Append(req, [ signature |-> q.signature, body |-> q.body, at |-> now ])
    /\ resp' = Append(resp, WebhookStatus(q, now))
    /\ pc' = Append(pc, IF Schedules(q, now) THEN "Scheduled" ELSE "none")
    /\ err' = Append(err, NONE)
    /\ conn' = Append(conn, "none")
    /\ lore' = Append(lore, NoRow)
    /\ chat_history' = Append(chat_history, << >>)
    /\ updated_lore' = Append(updated_lore, << >>)
    /\ reply_text' = Append(reply_text, << >>)
    /\ llm' = Append(llm, NoLlm)
    /\ UNCHANGED << now, SIGNING_SECRET, config, calls, fan_lore, messages, timeline, token_cache, sent, propagated >>

----------------------------------------------------------------------------------------------------------------------------------------
(* process_message, listener.py:241-380, one action per step.  A step's     *)
(* inputs (what a collaborator answers) are its parameters.                 *)

\* What a database call can end in: it returns, the statement raises, or the
\* commit raises.
DbOutcomes == { "ok", "execute", "commit" }
DbReads == { "ok", "execute" }

\* listener.py:245-259: field extraction, the log line, get_db_connection
Start(i, connected) ==
    /\ pc[i] = "Scheduled"
    /\ UNCHANGED << now, SIGNING_SECRET, config, calls, req, resp, fan_lore, messages, token_cache, sent >>
    /\ IF ~Subscriptable(IncomingText(i)) THEN Raise(i, "TypeError")
       ELSE IF connected
       THEN /\ pc' = [ pc EXCEPT ![i] = "LoadingFanState" ]
            /\ conn' = [ conn EXCEPT ![i] = "open" ]
            /\ UNCHANGED << err, timeline, lore, chat_history, updated_lore,
                            reply_text, llm, propagated >>
       ELSE Raise(i, "OperationalError")

\* listener.py:262-263
LoadingFanState(i, out) ==
    /\ pc[i] = "LoadingFanState"
    /\ UNCHANGED << now, SIGNING_SECRET, config, calls, req, resp, fan_lore, messages, token_cache, sent >>
    /\ IF out = "ok"
       THEN /\ lore' = [ lore EXCEPT ![i] = SelectFan(fan_lore, FanId(i)) ]
            /\ pc' = [ pc EXCEPT ![i] =
                         IF SelectFan(fan_lore, FanId(i)) = NoRow
                         THEN "CreatingFan" ELSE "PersistingInbound" ]
            /\ timeline' = Begin(timeline, i)
            /\ UNCHANGED << err, conn, chat_history, updated_lore, reply_text,
                            llm, propagated >>
       ELSE Raise(i, "OperationalError")

\* listener.py:265-272
CreatingFan(i, out) ==
    /\ pc[i] = "CreatingFan"
    /\ UNCHANGED << now, SIGNING_SECRET, config, calls, req, resp, messages, token_cache, sent >>
    /\ LET row == FanRow(FanId(i), << "Unknown" >>, << >>, "Friendly")
           working == InsertFanLore(fan_lore, row)
       IN  IF ~FanLorePrimaryKey(fan_lore, row)
           THEN /\ Raise(i, "IntegrityError")
                /\ fan_lore' = Rollback(fan_lore, fan_lore)
           ELSE IF out = "ok"
           THEN /\ fan_lore' = Commit(fan_lore, working)
                /\ pc' = [ pc EXCEPT ![i] = "ReloadingFan" ]
                /\ timeline' = End(timeline, i)
                /\ UNCHANGED << err, conn, lore, chat_history, updated_lore,
                                reply_text, llm, propagated >>
           ELSE /\ Raise(i, "OperationalError")
                /\ fan_lore' = Rollback(fan_lore, IF out = "commit" THEN working ELSE fan_lore)

\* listener.py:273-274
ReloadingFan(i, out) ==
    /\ pc[i] = "ReloadingFan"
    /\ UNCHANGED << now, SIGNING_SECRET, config, calls, req, resp, fan_lore, messages, token_cache, sent >>
    /\ IF out = "ok"
       THEN /\ lore' = [ lore EXCEPT ![i] = SelectFan(fan_lore, FanId(i)) ]
            /\ pc' = [ pc EXCEPT ![i] = "PersistingInbound" ]
            /\ timeline' = Begin(timeline, i)
            /\ UNCHANGED << err, conn, chat_history, updated_lore, reply_text,
                            llm, propagated >>
       ELSE Raise(i, "OperationalError")

\* listener.py:276-283
PersistingInbound(i, out) ==
    /\ pc[i] = "PersistingInbound"
    /\ UNCHANGED << now, SIGNING_SECRET, config, calls, req, resp, fan_lore, token_cache, sent >>
    /\ LET row == MessageRow(MsgId(i), FanId(i), "user", IncomingText(i))
           working == InsertOnConflictDoNothing(messages, row)
       IN  IF row.id = NONE \/ (MessagesPrimaryKey(messages, row)
                                  /\ ~MessagesForeignKey(fan_lore, row))
           THEN /\ Raise(i, "IntegrityError")
                /\ messages' = Rollback(messages, messages)
           ELSE IF out = "ok"
           THEN /\ messages' = Commit(messages, working)
                /\ pc' = [ pc EXCEPT ![i] = "BuildingHistory" ]
                /\ timeline' = CommitTimeline(timeline, i, row.id, working # messages)
                /\ UNCHANGED << err, conn, lore, chat_history, updated_lore,
                                reply_text, llm, propagated >>
           ELSE /\ Raise(i, "OperationalError")
                /\ messages' = Rollback(messages, IF out = "commit" THEN working ELSE messages)

\* (mutant) the run goes from the history straight to the generation
BuildingHistorySkipsLore(i, out) ==
    /\ pc[i] = "BuildingHistory"
    /\ out = "ok"
    /\ chat_history' = [ chat_history EXCEPT ![i] =
                            SelectHistory(messages, timeline, FanId(i)) ]
    /\ pc' = [ pc EXCEPT ![i] = "Generating" ]
    /\ timeline' = Begin(timeline, i)
    /\ UNCHANGED << now, SIGNING_SECRET, config, calls, req, resp, err, conn, lore, updated_lore, reply_text, llm,
                    fan_lore, messages, token_cache, sent, propagated >>

\* listener.py:285-297
BuildingHistory(i, out) ==
    /\ pc[i] = "BuildingHistory"
    /\ UNCHANGED << now, SIGNING_SECRET, config, calls, req, resp, fan_lore, messages, token_cache, sent >>
    /\ IF out = "ok"
       THEN /\ chat_history' = [ chat_history EXCEPT ![i] =
                                   SelectHistory(messages, timeline, FanId(i)) ]
            /\ pc' = [ pc EXCEPT ![i] = "UpdatingLore" ]
            /\ timeline' = Begin(timeline, i)
            /\ UNCHANGED << err, conn, lore, updated_lore, reply_text, llm, propagated >>
       ELSE Raise(i, "OperationalError")

\* What the lore completion call ends in
LoreResponses ==
    { HttpError, Timeout, ConnectionError, BadBody,
      Completion(NO_NEW_INFO), Completion(<< " " >>),
      Completion(<< " ", "likes hiking", "\n" >>), Completion(<< "has a dog" >>) }

\* listener.py:299-313
UpdatingLore(i, r, out) ==
    /\ pc[i] = "UpdatingLore"
    /\ UNCHANGED << now, SIGNING_SECRET, config, calls, req, resp, messages, token_cache, sent >>
    /\ IF Contains(lore[i].lore_text, << "Fan Name:" >>) /\ ~HasNameMatch(lore[i].lore_text)
       THEN Raise(i, "AttributeError") /\ UNCHANGED fan_lore
       ELSE LET updated == UpdateFanLore(lore[i].lore_text, GenerateLoreUpdate(r))
                writes == updated # lore[i].lore_text
                working == UpdateLoreText(fan_lore, FanId(i), updated)
            IN  IF ~writes \/ out = "ok"
                THEN /\ fan_lore' = IF writes THEN Commit(fan_lore, working) ELSE fan_lore
                     /\ timeline' = IF writes THEN End(timeline, i) ELSE timeline
                     /\ updated_lore' = [ updated_lore EXCEPT ![i] = updated ]
                     /\ llm' = [ llm EXCEPT ![i].lore_failed = (r.status # "200") ]
                     /\ pc' = [ pc EXCEPT ![i] = "UpdatingName" ]
                     /\ UNCHANGED << err, conn, lore, chat_history, reply_text, propagated >>
                ELSE /\ Raise(i, "OperationalError")
                     /\ fan_lore' = Rollback(fan_lore, IF out = "commit" THEN working ELSE fan_lore)

\* listener.py:315-326
UpdatingName(i, out) ==
    /\ pc[i] = "UpdatingName"
    /\ UNCHANGED << now, SIGNING_SECRET, config, calls, req, resp, messages, token_cache, sent >>
    /\ LET extracted_name ==
               IF HasNameMatch(updated_lore[i]) THEN Strip(NameGroup(updated_lore[i])) ELSE << >>
           writes == /\ HasNameMatch(updated_lore[i])
                     /\ extracted_name # << >>
                     /\ extracted_name # << "Unknown" >>
                     /\ extracted_name # lore[i].name
           working == UpdateName(fan_lore, FanId(i), extracted_name)
       IN  IF ~writes \/ out = "ok"
           THEN /\ fan_lore' = IF writes THEN Commit(fan_lore, working) ELSE fan_lore
                /\ timeline' = IF writes THEN End(timeline, i) ELSE timeline
                /\ pc' = [ pc EXCEPT ![i] = "Generating" ]
                /\ UNCHANGED << err, conn, lore, chat_history, updated_lore,
                                reply_text, llm, propagated >>
           ELSE /\ Raise(i, "OperationalError")
                /\ fan_lore' = Rollback(fan_lore, IF out = "commit" THEN working ELSE fan_lore)

\* What the persona completion call ends in
ReplyResponses ==
    { HttpError, Completion(<< "*", "waves", "*", " ", "Hey", " ", "Cutie" >>) }

\* listener.py:328-334
Generating(i, r, safe) ==
    /\ pc[i] = "Generating"
    /\ reply_text' = [ reply_text EXCEPT ![i] =
          GenerateSarahResponse(IncomingText(i), updated_lore[i], chat_history[i], r, safe) ]
    /\ llm' = [ llm EXCEPT
                  ![i].reply_failed = (CallsBackend(IncomingText(i)) /\ r.status # "200"),
                  ![i].fan_name = ExtractFanName(IncomingText(i), updated_lore[i], chat_history[i]),
                  ![i].request = IF CallsBackend(IncomingText(i))
                                 THEN FormattedMessages(IncomingText(i), updated_lore[i],
                                                        chat_history[i])
                                 ELSE << >> ]
    /\ pc' = [ pc EXCEPT ![i] = "PersistingOutbound" ]
    /\ UNCHANGED << now, SIGNING_SECRET, config, calls, req, resp, err, conn, lore, chat_history, updated_lore,
                    fan_lore, messages, timeline, token_cache, sent, propagated >>

\* (mutant) the run goes on to the delivery without storing its reply
PersistingOutboundSkipped(i, out) ==
    /\ pc[i] = "PersistingOutbound"
    /\ out = "ok"
    /\ pc' = [ pc EXCEPT ![i] = "Delivering" ]
    /\ UNCHANGED << now, SIGNING_SECRET, config, calls, req, resp, err, conn, lore, chat_history, updated_lore,
                    reply_text, llm, fan_lore, messages, timeline, token_cache,
                    sent, propagated >>

\* listener.py:336-345
PersistingOutbound(i, out) ==
    /\ pc[i] = "PersistingOutbound"
    /\ UNCHANGED << now, SIGNING_SECRET, config, calls, req, resp, fan_lore, token_cache, sent >>
    /\ LET row == MessageRow(Uuid4(i), FanId(i), "assistant", reply_text[i])
           working == InsertMessage(messages, row)
       IN  IF ~MessagesPrimaryKey(messages, row) \/ ~MessagesForeignKey(fan_lore, row)
           THEN /\ Raise(i, "IntegrityError")
                /\ messages' = Rollback(messages, messages)
           ELSE IF out = "ok"
           THEN /\ messages' = Commit(messages, working)
                /\ pc' = [ pc EXCEPT ![i] = "Delivering" ]
                /\ timeline' = CommitTimeline(timeline, i, row.id, TRUE)
                /\ UNCHANGED << err, conn, lore, chat_history, updated_lore,
                                reply_text, llm, propagated >>
           ELSE /\ Raise(i, "OperationalError")
                /\ messages' = Rollback(messages, IF out = "commit" THEN working ELSE messages)

----------------------------------------------------------------------------
(* get_fanvue_token, listener.py:154-185 *)

TokenMargin == 300
DefaultExpiresIn == 86400

\* What the token endpoint answers: an error status (raise_for_status) or a
\* token
TokenResponses ==
    { [ ok |-> FALSE, access_token |-> NONE, expires_in |-> 0 ],
      [ ok |-> TRUE, access_token |-> "tok", expires_in |-> DefaultExpiresIn ] }

CacheFresh(cache, t) == cache.token \notin { NONE, "" } /\ t < cache.expires_at
Refreshed(r, t) ==
    [ token |-> r.access_token, expires_at |-> t + r.expires_in - TokenMargin ]

\* listener.py:347-354
Delivering(i, r) ==
    /\ pc[i] = "Delivering"
    /\ UNCHANGED << now, SIGNING_SECRET, config, calls, req, resp, fan_lore, messages, sent >>
    /\ IF CacheFresh(token_cache, now)
       THEN /\ pc' = [ pc EXCEPT ![i] = "Sending" ]
            /\ UNCHANGED << err, conn, timeline, lore, chat_history, updated_lore,
                            reply_text, llm, propagated, token_cache >>
       ELSE IF r.ok
       THEN /\ token_cache' = Refreshed(r, now)
            /\ pc' = [ pc EXCEPT ![i] = "Sending" ]
            /\ UNCHANGED << err, conn, timeline, lore, chat_history, updated_lore,
                            reply_text, llm, propagated >>
       ELSE Raise(i, "HTTPError") /\ UNCHANGED token_cache

\* What the send-message call ends in
SendOutcomes == { "201", "500", "timeout" }

\* listener.py:356-380
Sending(i, out) ==
    /\ pc[i] = "Sending"
    /\ UNCHANGED << now, SIGNING_SECRET, config, calls, req, resp, fan_lore, messages, token_cache >>
    /\ IF out = "timeout"
       THEN Raise(i, "Timeout") /\ UNCHANGED sent
       ELSE /\ sent' = Append(sent, [ chat |-> ChatId(i), text |-> reply_text[i],
                                      status |-> out ])
            /\ pc' = [ pc EXCEPT ![i] = "Done" ]
            /\ Leave(i)
            /\ UNCHANGED << err, propagated >>

----------------------------------------------------------------------------
(* token_cache step by step: get_fanvue_token (listener.py:157-185) and the *)
(* two handlers that also write the cache, callback (listener.py:63-108)    *)
(* and refresh (listener.py:110-133).  Each call is a coroutine on the one  *)
(* event loop of the process; time passes while a call is blocked in its    *)
(* token request.                                                           *)

MaxCalls == 3
MaxTicks == 3
TickStep == 100
StartTime == 1000

\* tokens.get("expires_in", 3600), listener.py:87 and 120
HandlerDefaultExpiresIn == 3600

TokenFunctions == { "get_fanvue_token", "callback", "refresh" }

\* the response has no "expires_in"
NoExpiresIn == -1
NoData == [ access_token |-> NONE, expires_in |-> NoExpiresIn ]
\* a call: the function, its position, the token response it holds, when the
\* platform issued that token, when the call stored the expiry and the
\* expiry it stored, and what the call returned (cached: from the cache
\* without a request)
Call(fn, position) ==
    [ fn |-> fn, pc |-> position, data |-> NoData, issued_at |-> 0, stored_at |-> 0,
      expires_at |-> 0, result |-> NONE, cached |-> FALSE ]

\* (mutant) the coroutine is suspended between its two stores
AwaitBetweenStores == { "StoringExpiry" }
\* the positions at which a call hands the event loop to another coroutine:
\* get_fanvue_token, callback and refresh hold no await expression, and
\* process_message has none after listener.py:304
AwaitPoints == { }

\* the call is not on the event loop's thread
Parked(c) == calls[c].pc \in { "done" } \cup AwaitPoints
\* the event loop can start a coroutine
LoopFree == \A c \in DOMAIN calls : Parked(c)
\* the event loop can run call c
CanRun(c) == \A d \in DOMAIN calls \ { c } : Parked(d)

\* What the token endpoint answers to a call: a failure that raises
\* (raise_for_status, a transport error, a body without access_token),
\* or a token with its lifetime; expires_in may be absent
TokenFailures == { "HTTPError", "KeyError" }
ExpiresInValues == { NoExpiresIn, 200, 400 }
\* the platform gives every answer a token of its own
TokenOf(c) == "tok-" \o ToString(c)

\* data.get("expires_in", 86400), listener.py:180; tokens.get("expires_in", 3600)
ExpiresInOf(call) ==
    IF call.data.expires_in # NoExpiresIn THEN call.data.expires_in
    ELSE IF call.fn = "get_fanvue_token" THEN DefaultExpiresIn
    ELSE HandlerDefaultExpiresIn

\* (mutant) the expiry is stored without the margin
ExpiresAtNoMargin(call, t) == t + ExpiresInOf(call)
\* time.time() + expires_in - 300, listener.py:180, 87, 120
ExpiresAt(call, t) == t + ExpiresInOf(call) - TokenMargin

pipeline_vars ==
    << SIGNING_SECRET, config, req, resp, pc, err, conn, lore, chat_history,
       updated_lore, reply_text, llm, fan_lore, messages, timeline, sent,
       propagated >>

\* time.time() moves on
Tick ==
    /\ now < StartTime + MaxTicks * TickStep
    /\ now' = now + TickStep
    /\ UNCHANGED << calls, token_cache, pipeline_vars >>

\* listener.py:159-167: a pipeline run calls get_fanvue_token; the cached
\* token is returned, or the token request is sent
GetFanvueToken ==
    /\ Len(calls) < MaxCalls
    /\ LoopFree
    /\ calls' = Append(calls,
                       IF CacheFresh(token_cache, now)
                       THEN [ Call("get_fanvue_token", "done") EXCEPT
                                !.result = token_cache.token, !.cached = TRUE ]
                       ELSE Call("get_fanvue_token", "Requesting"))
    /\ UNCHANGED << now, token_cache, pipeline_vars >>

\* listener.py:79-82 and 116-117: a handler sends its token request
AuthHandler(fn) ==
    /\ fn \in { "callback", "refresh" }
    /\ Len(calls) < MaxCalls
    /\ LoopFree
    /\ calls' = Append(calls, Call(fn, "Requesting"))
    /\ UNCHANGED << now, token_cache, pipeline_vars >>

\* listener.py:167-178, fanvue.py:111-114 and 136-139: the request fails and
\* the call raises
TokenRequestFails(c, failure) ==
    /\ calls[c].pc = "Requesting"
    /\ CanRun(c)
    /\ calls' = [ calls EXCEPT ![c].pc = "done", ![c].result = failure ]
    /\ UNCHANGED << now, token_cache, pipeline_vars >>

\* the platform issues a token and the call receives the answer
TokenRequestAnswered(c, expires_in) ==
    /\ calls[c].pc = "Requesting"
    /\ CanRun(c)
    /\ calls' = [ calls EXCEPT
                    ![c].pc = "StoringToken",
                    ![c].data = [ access_token |-> TokenOf(c), expires_in |-> expires_in ],
                    ![c].issued_at = now ]
    /\ UNCHANGED << now, token_cache, pipeline_vars >>

\* token_cache["token"] = data["access_token"], listener.py:179, 86, 119
StoreToken(c) ==
    /\ calls[c].pc = "StoringToken"
    /\ CanRun(c)
    /\ token_cache' = [ token_cache EXCEPT !.token = calls[c].data.access_token ]
    /\ calls' = [ calls EXCEPT ![c].pc = "StoringExpiry" ]
    /\ UNCHANGED << now, pipeline_vars >>

\* token_cache["expires_at"] = ..., listener.py:180, 87, 120
StoreExpiry(c) ==
    /\ calls[c].pc = "StoringExpiry"
    /\ CanRun(c)
    /\ token_cache' = [ token_cache EXCEPT !.expires_at = ExpiresAt(calls[c], now) ]
    /\ calls' = [ calls EXCEPT ![c].pc = "Returning", ![c].stored_at = now,
                                ![c].expires_at = ExpiresAt(calls[c], now) ]
    /\ UNCHANGED << now, pipeline_vars >>

\* return token_cache["token"], listener.py:182; the handlers return the
\* token they received, listener.py:92-101 and 123-130
ReturnToken(c) ==
    /\ calls[c].pc = "Returning"
    /\ CanRun(c)
    /\ calls' = [ calls EXCEPT
                    ![c].pc = "done",
                    ![c].result = IF calls[c].fn = "get_fanvue_token"
                                  THEN token_cache.token
                                  ELSE calls[c].data.access_token ]
    /\ UNCHANGED << now, token_cache, pipeline_vars >>

InitToken ==
    /\ now = StartTime
    /\ SIGNING_SECRET = FANVUE_WEBHOOK_SECRET
    /\ config = ConfigYaml
    /\ calls = << >>
    /\ req = << >> /\ resp = << >> /\ pc = << >> /\ err = << >> /\ conn = << >>
    /\ lore = << >> /\ chat_history = << >> /\ updated_lore = << >>
    /\ reply_text = << >> /\ llm = << >>
    /\ fan_lore = { } /\ messages = { } /\ timeline = << >>
    /\ token_cache = [ token |-> NONE, expires_at |-> 0 ]
    /\ sent = << >>
    /\ propagated = { }

NextToken ==
    \/ Tick
    \/ GetFanvueToken
    \/ \E fn \in { "callback", "refresh" } : AuthHandler(fn)
    \/ \E c \in DOMAIN calls, failure \in TokenFailures : TokenRequestFails(c, failure)
    \/ \E c \in DOMAIN calls, expires_in \in ExpiresInValues : TokenRequestAnswered(c, expires_in)
    \/ \E c \in DOMAIN calls : StoreToken(c)
    \/ \E c \in DOMAIN calls : StoreExpiry(c)
    \/ \E c \in DOMAIN calls : ReturnToken(c)

SpecToken == InitToken /\ [][NextToken]_vars

----------------------------------------------------------------------------
(* The system *)

Init ==
    /\ now = 1000
    /\ SIGNING_SECRET = FANVUE_WEBHOOK_SECRET
    /\ config = ConfigYaml
    /\ calls = << >>
    /\ req = << >>
    /\ resp = << >>
    /\ pc = << >>
    /\ err = << >>
    /\ conn = << >>
    /\ lore = << >>
    /\ chat_history = << >>
    /\ updated_lore = << >>
    /\ reply_text = << >>
    /\ llm = << >>
    /\ fan_lore = { }
    /\ messages = { }
    /\ timeline = << >>
    /\ token_cache = [ token |-> NONE, expires_at |-> 0 ]
    /\ sent = << >>
    /\ propagated = { }

Next ==
    \/ \E q \in Requests : FanvueWebhook(q)
    \/ \E i \in Tasks, connected \in BOOLEAN : Start(i, connected)
    \/ \E i \in Tasks, out \in DbReads : LoadingFanState(i, out)
    \/ \E i \in Tasks, out \in DbOutcomes : CreatingFan(i, out)
    \/ \E i \in Tasks, out \in DbReads : ReloadingFan(i, out)
    \/ \E i \in Tasks, out \in DbOutcomes : PersistingInbound(i, out)
    \/ \E i \in Tasks, out \in DbReads : BuildingHistory(i, out)
    \/ \E i \in Tasks, r \in LoreResponses, out \in DbOutcomes : UpdatingLore(i, r, out)
    \/ \E i \in Tasks, out \in DbOutcomes : UpdatingName(i, out)
    \/ \E i \in Tasks, r \in ReplyResponses, safe \in safe_responses : Generating(i, r, safe)
    \/ \E i \in Tasks, out \in DbOutcomes : PersistingOutbound(i, out)
    \/ \E i \in Tasks, r \in TokenResponses : Delivering(i, r)
    \/ \E i \in Tasks, out \in SendOutcomes : Sending(i, out)

Spec == Init /\ [][Next]_vars

----------------------------------------------------------------------------
(* Helpers of the properties *)

Range(f) == { f[k] : k \in DOMAIN f }

\* the fact lines of a lore text
RECURSIVE LinesOf(_)
LinesOf(text) ==
    IF text = << >> THEN << >>
    ELSE LET n == LineEnd(text, 1)
         IN  << SubSeq(text, 1, n) >> \o LinesOf(SubSeq(text, n + 2, Len(text)))

\* a occurs in b as a subsequence (same relative order)
RECURSIVE IsSubsequence(_, _)
IsSubsequence(a, b) ==
    IF a = << >> THEN TRUE
    ELSE IF b = << >> THEN FALSE
    ELSE IF Head(a) = Head(b) THEN IsSubsequence(Tail(a), Tail(b))
    ELSE IsSubsequence(a, Tail(b))

Finished(i) == pc[i] \in { "none", "Done", "Failed", "Crashed" }
PastLoadingFanState ==
    { "PersistingInbound", "BuildingHistory", "UpdatingLore", "UpdatingName",
      "Generating", "PersistingOutbound", "Delivering", "Sending", "Done" }
AssistantRows(f) == { m \in messages : m.role = "assistant" /\ m.fan_id = f }
\* the request carries a signature that verify_signature accepts
Verified(q) ==
    HasSignature(q) /\ Decodable(q.body) /\ VerifySignature(q.body, q.signature, q.at)

----------------------------------------------------------------------------
(* C1 *)

\* C1: a request whose signature header is missing, or whose signature
\* verify_signature rejects, is answered 401 and schedules no task.
C1_UnauthorizedRejected ==
    \A i \in DOMAIN req :
        (~HasSignature(req[i])
            \/ (Decodable(req[i].body)
                  /\ ~VerifySignature(req[i].body, req[i].signature, req[i].at)))
        => (resp[i] = 401 /\ pc[i] = "none")

----------------------------------------------------------------------------
(* C2 *)

\* C2: the inbound insert is idempotent by id: rows are never changed or
\* removed (the first-seen content stays), no two rows share an id, and an
\* insert that finds its id present raises no integrity error.
C2_IdempotentInsert ==
    [][ /\ \A m \in messages : m \in messages'
        /\ \A a, b \in messages' : a.id = b.id => a = b
        /\ \A i \in Tasks :
              (/\ pc[i] = "PersistingInbound"
               /\ \E m \in messages : m.id = MsgId(i)
               /\ pc'[i] # pc[i])
              => (err'[i] # "IntegrityError" /\ messages' = messages) ]_vars

\* a second delivery of an id, with another content, went through the insert
C2_Witness ==
    \E i \in Tasks :
        /\ pc[i] = "BuildingHistory"
        /\ \E m \in messages : m.id = MsgId(i) /\ m.content # IncomingText(i)

----------------------------------------------------------------------------
(* C3 *)

\* the distinct inbound message ids delivered for fan f
DistinctInbound(f) == { MsgId(i) : i \in { k \in Tasks : pc[k] # "none" /\ FanId(k) = f } }
\* the replies sent to the chats of fan f
RepliesSent(f) ==
    { k \in DOMAIN sent : \E i \in Tasks : FanId(i) = f /\ ChatId(i) = sent[k].chat }

\* C3: duplicate deliveries are absorbed: once every run has finished, a fan
\* has no more assistant rows and no more replies sent than distinct
\* inbound message ids were delivered for the fan.
C3_DuplicateAbsorbed ==
    (\A i \in Tasks : Finished(i))
    => \A f \in FanIds :
          /\ Cardinality(AssistantRows(f)) <= Cardinality(DistinctInbound(f))
          /\ Cardinality(RepliesSent(f)) <= Cardinality(DistinctInbound(f))

----------------------------------------------------------------------------
(* C4 *)

\* C4: a fan whose task has passed LoadingFanState has exactly one row; a
\* row appears only by CreatingFan, with the default values, and no step
\* removes a row.
C4_OneFanRecord ==
    /\ [](/\ \A a, b \in fan_lore : a.fan_id = b.fan_id => a = b
          /\ \A i \in Tasks :
                pc[i] \in PastLoadingFanState
                => Cardinality({ f \in fan_lore : f.fan_id = FanId(i) }) = 1)
    /\ [][ /\ \A f \in fan_lore : \E g \in fan_lore' : g.fan_id = f.fan_id
           /\ \A g \in fan_lore' :
                 (~\E f \in fan_lore : f.fan_id = g.fan_id)
                 => /\ g = FanRow(g.fan_id, << "Unknown" >>, << >>, "Friendly")
                    /\ \E i \in Tasks : /\ pc[i] = "CreatingFan"
                                        /\ pc'[i] = "ReloadingFan"
                                        /\ FanId(i) = g.fan_id ]_vars

\* two tasks raced to create the same fan: one lost, one row exists
C4_Witness ==
    \E i, j \in Tasks :
        /\ i # j /\ FanId(i) = FanId(j)
        /\ pc[i] = "Failed" /\ err[i] = "IntegrityError"
        /\ pc[j] \in PastLoadingFanState
        /\ Cardinality({ f \in fan_lore : f.fan_id = FanId(j) }) = 1

----------------------------------------------------------------------------
(* C5 *)

\* C5: every fact line once stored in a fan's lore_text is in every later
\* stored value, in the same relative order.
C5_LoreAppendOnly ==
    [][ \A f \in fan_lore, g \in fan_lore' :
            f.fan_id = g.fan_id
            => IsSubsequence(LinesOf(f.lore_text), LinesOf(g.lore_text)) ]_vars

\* C5 (amended): lore_text changes only by a task's UpdatingLore step, and
\* when the value the task read at LoadingFanState is still the stored one,
\* the new value keeps every stored line, in order.
C5_LoreAppendOnlyUnlessRaced ==
    [][ \A f \in fan_lore, g \in fan_lore' :
            (f.fan_id = g.fan_id /\ f.lore_text # g.lore_text)
            => \E i \in Tasks :
                  /\ pc[i] = "UpdatingLore" /\ pc'[i] = "UpdatingName"
                  /\ FanId(i) = f.fan_id
                  /\ g.lore_text = updated_lore'[i]
                  /\ lore[i].lore_text = f.lore_text
                     => IsSubsequence(LinesOf(f.lore_text), LinesOf(g.lore_text)) ]_vars

\* two facts were appended one after the other
C5_Witness ==
    \E f \in fan_lore : Len(LinesOf(f.lore_text)) = 2

----------------------------------------------------------------------------
(* C6 *)

\* C6: while a run is delivering, its assistant row is committed; the step
\* that ends the delivery, whatever its outcome, changes no fan row and no
\* message row, and every reply sent is the content of a committed
\* assistant row.
C6_DeliveryAfterCommit ==
    /\ [](/\ \A i \in Tasks :
                pc[i] \in { "Delivering", "Sending" }
                => /\ MessageRow(Uuid4(i), FanId(i), "assistant", reply_text[i]) \in messages
                   /\ \E m \in messages : m.id = MsgId(i) /\ m.role = "user"
                   /\ ~InTxn(timeline, i)
          /\ \A k \in DOMAIN sent :
                \E m \in messages : m.role = "assistant" /\ m.content = sent[k].text)
    /\ [][ \A i \in Tasks :
              (pc[i] \in { "Delivering", "Sending" } /\ pc'[i] # pc[i])
              => (fan_lore' = fan_lore /\ messages' = messages) ]_vars

\* a delivery failed (token or send) and the reply is still stored
C6_Witness ==
    \E i, j \in Tasks :
        /\ pc[i] = "Failed" /\ err[i] = "HTTPError"
        /\ pc[j] = "Failed" /\ err[j] = "Timeout"
        /\ \A k \in { i, j } :
              \E m \in messages : m.id = Uuid4(k) /\ m.role = "assistant"

----------------------------------------------------------------------------
(* C7 *)

----------------------------------------------------------------------------
(* C8 *)

\* C8: no exception leaves process_message: no run crashes, nothing
\* propagates, a failed run holds no connection and no transaction, and a
\* failed run does not stop another run from being scheduled and stepping.
C8_ExceptionsCaught ==
    /\ [](/\ propagated = {}
          /\ \A i \in Tasks :
                /\ pc[i] # "Crashed"
                /\ pc[i] = "Failed"
                   => (err[i] \in ExceptionClasses /\ conn[i] # "open" /\ ~InTxn(timeline, i)))
    /\ [][ \A i \in Tasks :
              pc[i] = "Failed" => (pc'[i] = "Failed" /\ err'[i] = err[i]) ]_vars

\* a run failed at field extraction and a run scheduled after it is done
C8_Witness ==
    \E i, j \in Tasks :
        /\ i < j
        /\ pc[i] = "Failed" /\ err[i] = "TypeError"
        /\ pc[j] = "Done"

----------------------------------------------------------------------------
(* C9 *)

\* C9: the step at which a persistence operation fails changes no table
\* and sends nothing, leaves the connection closed (or never opened) and no
\* transaction open; the failed run takes no further step.
PersistenceErrors == { "OperationalError", "IntegrityError" }
C9_PersistenceFailureAborts ==
    [][ \A i \in Tasks :
          /\ (pc[i] # "Failed" /\ pc'[i] = "Failed" /\ err'[i] \in PersistenceErrors)
             => /\ fan_lore' = fan_lore
                /\ messages' = messages
                /\ sent' = sent
                /\ conn'[i] = (IF conn[i] = "open" THEN "closed" ELSE conn[i])
                /\ ~InTxn(timeline', i)
          /\ pc[i] = "Failed"
             => (pc'[i] = "Failed" /\ conn'[i] = conn[i]) ]_vars

\* a run failed on the database after its inbound row was committed
C9_Witness ==
    \E i \in Tasks :
        /\ pc[i] = "Failed" /\ err[i] = "OperationalError" /\ conn[i] = "closed"
        /\ \E m \in messages : m.id = MsgId(i) /\ m.content = IncomingText(i)
        /\ ~\E m \in messages : m.id = Uuid4(i)

----------------------------------------------------------------------------
(* C10 *)

\* C10: every request whose signature verifies is answered with the
\* success acknowledgement (200), whatever its body.
C10_VerifiedAcknowledged ==
    \A i \in DOMAIN req : Verified(req[i]) => resp[i] = 200

----------------------------------------------------------------------------
(* C11 *)

\* the positions of a run, in program order
StepOrder ==
    << "Scheduled", "LoadingFanState", "CreatingFan", "ReloadingFan",
       "PersistingInbound", "BuildingHistory", "UpdatingLore", "UpdatingName",
       "Generating", "PersistingOutbound", "Delivering", "Sending", "Done" >>
StepRank(p) == CHOOSE k \in DOMAIN StepOrder : StepOrder[k] = p
\* the pipeline state a position belongs to
StageOrder ==
    << "Verifying", "LoadingFanState", "PersistingInbound", "BuildingHistory",
       "UpdatingLore", "Generating", "PersistingOutbound", "Delivering", "Done" >>
Stage(p) ==
    CASE p = "Scheduled" -> "Verifying"
      [] p \in { "CreatingFan", "ReloadingFan" } -> "LoadingFanState"
      [] p = "UpdatingName" -> "UpdatingLore"
      [] p = "Sending" -> "Delivering"
      [] OTHER -> p
StageRank(p) == CHOOSE k \in DOMAIN StageOrder : StageOrder[k] = Stage(p)

\* C11: a run moves only forward, to the same or to the next pipeline state
\* of LoadingFanState, PersistingInbound, BuildingHistory, UpdatingLore,
\* Generating, PersistingOutbound, Delivering, Done, or to Failed; a state is
\* entered with the writes of the one before committed; Done and Failed are
\* terminal.
C11_PipelineOrder ==
    [][ \A i \in Tasks :
          /\ pc[i] \in { "Done", "Failed", "none" } => pc'[i] = pc[i]
          /\ (pc'[i] # pc[i] /\ pc'[i] # "Failed")
             => /\ pc[i] \in Range(StepOrder) /\ pc'[i] \in Range(StepOrder)
                /\ StepRank(pc'[i]) > StepRank(pc[i])
                /\ StageRank(pc'[i]) \in { StageRank(pc[i]), StageRank(pc[i]) + 1 }
                /\ pc'[i] = "PersistingInbound"
                   => \E f \in fan_lore' : f.fan_id = FanId(i)
                /\ pc'[i] = "BuildingHistory"
                   => \E m \in messages' : m.id = MsgId(i)
                /\ (pc'[i] = "UpdatingName" /\ updated_lore'[i] # lore[i].lore_text)
                   => \E f \in fan_lore' :
                         f.fan_id = FanId(i) /\ f.lore_text = updated_lore'[i]
                /\ pc'[i] = "Delivering"
                   => MessageRow(Uuid4(i), FanId(i), "assistant", reply_text[i])
                         \in messages' ]_vars

\* one run went through every state to Done, another failed while delivering
C11_Witness ==
    \E i, j \in Tasks :
        /\ pc[i] = "Done" /\ \E k \in DOMAIN sent : sent[k].chat = ChatId(i)
        /\ pc[j] = "Failed" /\ err[j] = "Timeout"
        /\ \E f \in fan_lore : f.fan_id = FanId(i) /\ f.lore_text # << >>

----------------------------------------------------------------------------
(* generate_sarah_response on its own: one run stands at the generation     *)
(* step with its message, lore and history drawn from the sets below, and   *)
(* the backend answers in any of the ways of AllReplyResponses.             *)

ReplyBodies ==
    { "e1", "e2", "e_upper", "e_age", "e_agefar", "e_name", "e_good", "e_hot", "e_two" }
ReplyLore ==
    { << >>, << "likes hiking" >>, << "call", " ", "me", " ", "jay" >>,
      << "my", " ", "name", " ", "is", " ", "max" >> }
EarlierRows ==
    { << >>,
      << MessageRow("m0", "f1", "user", << "my", " ", "name", " ", "is", " ", "hey" >>) >> }
AllReplyResponses ==
    { HttpError, Timeout, ConnectionError, BadBody,
      Completion(<< "Hey", " ", "Cutie" >>),
      Completion(<< "*", "waves", "*", " ", "Hey", " ", "Babe" >>),
      Completion(<< "*", "waves", "*" >>),
      Completion(<< " ", "\n" >>),
      Completion(<< >>),
      Completion(<< "BadTopic" >>),
      Completion(<< "*", "15", "*", " ", "hot" >>),
      Completion(<< "Hey", " ", "Babe", " ", "Looking" >>),
      Completion(<< "Good", " ", "Looking", ",", " ", "Cutie" >>),
      Completion(<< "*", "*", "Hey", "*", "*", " ", "*", "waves", "*" >>),
      Completion(<< "Hey", " ", "Cutie", " ", "give", " ", "me", " ", "5" >>),
      Completion(<< "15", " ", "*", "filler60", "*", " ", "hot" >>) }

InitReply ==
    /\ now = 1000
    /\ SIGNING_SECRET = FANVUE_WEBHOOK_SECRET
    /\ config = ConfigYaml
    /\ calls = << >>
    /\ \E b \in ReplyBodies, l \in ReplyLore, earlier \in EarlierRows :
          /\ req = << [ signature |-> SignedHeader(b, "1000"), body |-> b, at |-> 1000 ] >>
          /\ resp = << 200 >>
          /\ pc = << "Generating" >>
          /\ err = << NONE >>
          /\ conn = << "open" >>
          /\ fan_lore = { FanRow(FanId(1), << "Unknown" >>, l, "Friendly") }
          /\ lore = << FanRow(FanId(1), << "Unknown" >>, l, "Friendly") >>
          /\ updated_lore = << l >>
          /\ messages = Range(earlier)
                          \cup { MessageRow(MsgId(1), FanId(1), "user", IncomingText(1)) }
          /\ timeline = [ k \in DOMAIN earlier |-> earlier[k].id ] \o << MsgId(1), TxnOf(1) >>
          /\ chat_history = << SelectHistory(messages, timeline, FanId(1)) >>
    /\ reply_text = << << >> >>
    /\ llm = << NoLlm >>
    /\ token_cache = [ token |-> NONE, expires_at |-> 0 ]
    /\ sent = << >>
    /\ propagated = { }

NextReply ==
    \E r \in AllReplyResponses, safe \in safe_responses : Generating(1, r, safe)

SpecReply == InitReply /\ [][NextReply]_vars

\* the run has returned from generate_sarah_response
Generated(i) == pc[i] = "PersistingOutbound"

----------------------------------------------------------------------------
(* C12 *)

\* C12: when the inbound message contains blocked content, the reply is a
\* safe response whatever the backend would have answered, and the call to
\* the backend is not reached.
C12_BlockedInboundSafe ==
    [][ \A i \in Tasks :
          (pc[i] = "Generating" /\ ContainsBlockedContent(IncomingText(i))
             /\ pc'[i] # pc[i])
          => /\ reply_text'[i] \in safe_responses
             /\ ~CallsBackend(IncomingText(i))
             /\ ~llm'[i].reply_failed ]_vars

\* a message blocked by the age rule got a safe response
C12_Witness ==
    \E i \in Tasks :
        /\ Generated(i)
        /\ IncomingText(i) = << "15", " ", "sexy" >>
        /\ reply_text[i] \in safe_responses

----------------------------------------------------------------------------
(* C13 *)

\* C13: when the call is reached and succeeds with a raw reply that
\* contains blocked content, the reply is one of the safe responses.
C13_BlockedReplySafe ==
    [][ \A i \in Tasks, r \in AllReplyResponses, safe \in safe_responses :
          (/\ Generating(i, r, safe)
           /\ CallsBackend(IncomingText(i))
           /\ r.status = "200"
           /\ ContainsBlockedContent(r.content))
          => reply_text'[i] \in safe_responses ]_vars

\* an unblocked message whose raw reply was blocked got a safe response
C13_Witness ==
    \E i \in Tasks :
        /\ Generated(i)
        /\ ~ContainsBlockedContent(IncomingText(i))
        /\ reply_text[i] \in safe_responses

----------------------------------------------------------------------------
(* C14 *)

\* C14: generate_sarah_response returns a non-empty string.
C14_ReplyNonEmpty ==
    \A i \in Tasks : Generated(i) => reply_text[i] # << >>

----------------------------------------------------------------------------
(* C15 *)

\* the lore completion call ended in a transport error, a non-200 answer,
\* an unparsable body or an empty output
LoreCallFailed(r) == r.status # "200" \/ Strip(r.content) = << >>

\* C15: when the lore call fails or yields nothing, generate_lore_update
\* gives NO_NEW_INFO and the lore step leaves every fan row as it is stored;
\* the lore the run carries on with is the one it loaded.
C15_LoreFailSafe ==
    [][ \A i \in Tasks, r \in LoreResponses, out \in DbOutcomes :
          (UpdatingLore(i, r, out) /\ LoreCallFailed(r))
          => /\ GenerateLoreUpdate(r) = NO_NEW_INFO
             /\ fan_lore' = fan_lore
             /\ pc'[i] = "UpdatingName" => updated_lore'[i] = lore[i].lore_text ]_vars

\* a lore call failed in a run that had loaded the lore before another run
\* stored a fact, and the fact is still stored
C15_Witness ==
    \E i \in Tasks :
        /\ pc[i] = "UpdatingName" /\ llm[i].lore_failed
        /\ lore[i].lore_text = << >>
        /\ \E f \in fan_lore : f.fan_id = FanId(i) /\ f.lore_text # << >>

----------------------------------------------------------------------------
(* The lore step on its own: one run stands at the lore update with the fan *)
(* row it loaded, drawn from the rows earlier runs can leave behind, and    *)
(* the lore call answers in any of the ways of AllLoreResponses.            *)

NameJay == << "Fan Name:", " ", "Jay" >>
\* name and lore_text of the stored row
StoredFans ==
    { << << "Unknown" >>, << >> >>,
      << << "Unknown" >>, << "likes hiking" >> >>,
      << << "Jay" >>, NameJay >>,
      << << "Unknown" >>, NameJay >>,
      << << "Jay" >>, << "likes hiking", "\n" >> \o NameJay >>,
      << << "Unknown" >>, << "Fan Name:", " ", "Unknown" >> >> }
LoreBodies == { "e1", "e_name" }
AllLoreResponses ==
    { HttpError, Timeout, ConnectionError, BadBody,
      Completion(NO_NEW_INFO), Completion(<< " " >>), Completion(<< >>),
      Completion(<< " ", "has a dog", "\n" >>),
      Completion(NameJay),
      Completion(<< "Fan Name:", " ", "Hey" >>),
      Completion(<< "Fan Name:", " ", "Unknown" >>),
      Completion(<< "Fan Name:", " ", " ", "\n", "has a dog" >>),
      Completion(<< "has a dog", "\n", "Fan Name:", " ", "Hey", " " >>) }

InitLore ==
    /\ now = 1000
    /\ SIGNING_SECRET = FANVUE_WEBHOOK_SECRET
    /\ config = ConfigYaml
    /\ calls = << >>
    /\ \E fan \in StoredFans, b \in LoreBodies :
          /\ req = << [ signature |-> SignedHeader(b, "1000"), body |-> b, at |-> 1000 ] >>
          /\ resp = << 200 >>
          /\ pc = << "UpdatingLore" >>
          /\ err = << NONE >>
          /\ conn = << "open" >>
          /\ fan_lore = { FanRow(FanId(1), fan[1], fan[2], "Friendly") }
          /\ lore = << FanRow(FanId(1), fan[1], fan[2], "Friendly") >>
          /\ messages = { MessageRow(MsgId(1), FanId(1), "user", IncomingText(1)) }
          /\ timeline = << MsgId(1), TxnOf(1) >>
          /\ chat_history = << SelectHistory(messages, timeline, FanId(1)) >>
    /\ updated_lore = << << >> >>
    /\ reply_text = << << >> >>
    /\ llm = << NoLlm >>
    /\ token_cache = [ token |-> NONE, expires_at |-> 0 ]
    /\ sent = << >>
    /\ propagated = { }

NextLore ==
    \/ \E r \in AllLoreResponses, out \in DbOutcomes : UpdatingLore(1, r, out)
    \/ \E out \in DbOutcomes : UpdatingName(1, out)

SpecLore == InitLore /\ [][NextLore]_vars

----------------------------------------------------------------------------
(* C16 *)

\* a is an initial part of b
IsPrefix(a, b) == Len(a) <= Len(b) /\ SubSeq(b, 1, Len(a)) = a

\* C16: for the previous lore P the run loaded and the extractor output N,
\* update_fan_lore gives P when N is NO_NEW_INFO, N when P is empty, and
\* otherwise P, a newline, N; the lines of P are the first lines of the
\* result.
C16_UpdateFanLoreAppends ==
    [][ \A i \in Tasks, r \in AllLoreResponses, out \in DbOutcomes :
          (UpdatingLore(i, r, out) /\ pc'[i] = "UpdatingName")
          => LET P == lore[i].lore_text
                 N == GenerateLoreUpdate(r)
             IN  /\ updated_lore'[i] =
                       (IF N = NO_NEW_INFO THEN P
                        ELSE IF P = << >> THEN N
                        ELSE P \o << "\n" >> \o N)
                 /\ IsPrefix(LinesOf(P), LinesOf(updated_lore'[i]))
                 /\ Len(updated_lore'[i]) >= Len(P) ]_vars

\* a fact was appended to a lore of two lines
C16_Witness ==
    \E i \in Tasks :
        /\ pc[i] = "UpdatingName"
        /\ Len(LinesOf(lore[i].lore_text)) = 2
        /\ Len(LinesOf(updated_lore[i])) = 3

----------------------------------------------------------------------------
(* C17 *)

\* the values of the "Fan Name:" facts of a lore text
NameFacts(text) ==
    { Strip(SubSeq(text, k + 2, LineEnd(text, k + 2))) : k \in NameMatches(text) }
\* the stored name of fan f
NameIn(tbl, f) == (CHOOSE row \in tbl : row.fan_id = f).name

\* C17: at the name update after the lore step, when the lore holds a
\* "Fan Name:" fact whose value is non-empty, not "Unknown" and not the
\* stored name, the stored name becomes the value of such a fact; otherwise
\* the stored name stays.
C17_NameFollowsFact ==
    [][ \A i \in Tasks :
          (pc[i] = "UpdatingName" /\ pc'[i] = "Generating")
          => LET stored == NameIn(fan_lore, FanId(i))
                 values == { v \in NameFacts(updated_lore[i]) :
                               v # << >> /\ v # << "Unknown" >> /\ v # stored }
             IN  IF values # { }
                 THEN NameIn(fan_lore', FanId(i)) \in values
                 ELSE NameIn(fan_lore', FanId(i)) = stored ]_vars

----------------------------------------------------------------------------
(* The history step on its own: the process has just accepted one message   *)
(* event for a fan whose earlier messages, left by earlier runs, are in the *)
(* database; the event is a new message or the redelivery of the oldest one. *)

MaxEarlier == 7
EarlierMessage(k) ==
    MessageRow("h" \o ToString(k), "f1",
               IF k % 2 = 1 THEN "user" ELSE "assistant", << "old" \o ToString(k) >>)
HistoryBodies == { "e1", "e_name", "e_old" }

InitHistory ==
    /\ now = 1000
    /\ SIGNING_SECRET = FANVUE_WEBHOOK_SECRET
    /\ config = ConfigYaml
    /\ calls = << >>
    /\ \E n \in 0 .. MaxEarlier, b \in HistoryBodies :
          /\ req = << [ signature |-> SignedHeader(b, "1000"), body |-> b, at |-> 1000 ] >>
          /\ messages = { EarlierMessage(k) : k \in 1 .. n }
          /\ timeline = [ k \in 1 .. n |-> EarlierMessage(k).id ]
    /\ resp = << 200 >>
    /\ pc = << "Scheduled" >>
    /\ err = << NONE >>
    /\ conn = << "none" >>
    /\ fan_lore = { FanRow("f1", << "Unknown" >>, << >>, "Friendly") }
    /\ lore = << NoRow >>
    /\ chat_history = << << >> >>
    /\ updated_lore = << << >> >>
    /\ reply_text = << << >> >>
    /\ llm = << NoLlm >>
    /\ token_cache = [ token |-> NONE, expires_at |-> 0 ]
    /\ sent = << >>
    /\ propagated = { }

NextHistory ==
    \/ \E connected \in BOOLEAN : Start(1, connected)
    \/ \E out \in DbReads : LoadingFanState(1, out)
    \/ \E out \in DbOutcomes : PersistingInbound(1, out)
    \/ \E out \in DbReads : BuildingHistory(1, out)

SpecHistory == InitHistory /\ [][NextHistory]_vars

----------------------------------------------------------------------------
(* C18 *)

\* the messages of fan f that have fewer than HistoryLimit later messages
MostRecent(tbl, tl, f) ==
    LET rows == { m \in tbl : m.fan_id = f }
    IN  { m \in rows :
            Cardinality({ x \in rows : CreatedAt(tl, x.id) > CreatedAt(tl, m.id) })
               < HistoryLimit }
\* role and content of a set of messages, oldest first
Ascending(rows, tl) ==
    [ k \in 1 .. Cardinality(rows) |->
        LET m == CHOOSE m \in rows :
                    Cardinality({ x \in rows : CreatedAt(tl, x.id) < CreatedAt(tl, m.id) })
                       = k - 1
        IN  [ role |-> m.role, content |-> m.content ] ]

\* C18: the history a run builds is the fan's (at most) 6 most recently
\* created messages, oldest first, and the stored row of the run's inbound
\* message is one of them.
C18_HistoryRecentWithInbound ==
    [][ \A i \in Tasks :
          (pc[i] = "BuildingHistory" /\ pc'[i] = "UpdatingLore")
          => /\ chat_history'[i] = Ascending(MostRecent(messages, timeline, FanId(i)), timeline)
             /\ \E m \in MostRecent(messages, timeline, FanId(i)) : m.id = MsgId(i) ]_vars

----------------------------------------------------------------------------
(* verify_signature on its own: the process starts with the signing secret *)
(* set or unset and receives requests with every kind of header.           *)

Timestamps == { "699", "700", "1000", "1300", "1301" }
SignedBodies == { "e1", "e2" }
Pair(k, v) == << k, v >>
\* the signature the platform computes for body b at time t
Sig(b, t) == HmacSha256(FANVUE_WEBHOOK_SECRET, t \o "." \o b)
WellFormedHeaders ==
    { SignedHeader(b, t) : b \in SignedBodies, t \in Timestamps }
    \cup { << Pair("t", "1000"), Pair("v0", "forged") >>,
           << Pair("t", "1000"), Pair("v0", HmacSha256("other", "1000.e1")) >>,
           << Pair("v0", Sig("e1", "1000")), Pair("t", "1000") >>,
           << Pair("t", "1000"), Pair("v0", Sig("e1", "1000")), Pair("v1", "x") >>,
           << Pair("t", "699"), Pair("v0", Sig("e1", "1000")), Pair("t", "1000") >>,
           << Pair("t", "1000") >>,
           << Pair("v0", Sig("e1", "1000")) >>,
           << Pair("t", ""), Pair("v0", Sig("e1", "1000")) >>,
           << Pair("t", "1000"), Pair("v0", "") >> }
MalformedHeaders ==
    { << Pair("t", "1000"), << "v0" >> >>,
      << << "t", "1000", "x" >>, Pair("v0", Sig("e1", "1000")) >>,
      << Pair("t", "abc"), Pair("v0", Sig("e1", "abc")) >>,
      << Pair("t", "1000"), Pair("v0", Sig("e1", "1000")), << "" >> >>,
      EmptyHeader }
SignatureRequests ==
    { Request(h, b) : h \in WellFormedHeaders \cup MalformedHeaders \cup { NoHeader },
                      b \in SignedBodies }

InitVerify ==
    /\ now = 1000
    /\ SIGNING_SECRET \in { FANVUE_WEBHOOK_SECRET, NONE }
    /\ config = ConfigYaml
    /\ calls = << >>
    /\ req = << >> /\ resp = << >> /\ pc = << >> /\ err = << >> /\ conn = << >>
    /\ lore = << >> /\ chat_history = << >> /\ updated_lore = << >>
    /\ reply_text = << >> /\ llm = << >>
    /\ fan_lore = { } /\ messages = { } /\ timeline = << >>
    /\ token_cache = [ token |-> NONE, expires_at |-> 0 ]
    /\ sent = << >>
    /\ propagated = { }

NextVerify == \E q \in SignatureRequests : FanvueWebhook(q)

SpecVerify == InitVerify /\ [][NextVerify]_vars

----------------------------------------------------------------------------
(* C19 *)

\* the header carries t and v0, t is within 300 seconds of the time of the
\* check, and v0 is the HMAC of "t.payload" under the signing secret
Authentic(payload, header, t_now) ==
    \E t \in Timestamps :
        /\ DictGet(header, "t") = t
        /\ Abs(t_now - ParseInt(t)) <= 300
        /\ DictGet(header, "v0") = HmacSha256(SIGNING_SECRET, t \o "." \o payload)

\* C19: with the signing secret set, a request whose header is a list of
\* key=value pairs is accepted exactly when the header is authentic for its
\* body; for an accepted request, no other body, no other v0 and no
\* timestamp outside the window is accepted in its place.
C19_VerifySignatureExact ==
    \A i \in DOMAIN req :
        (SIGNING_SECRET # NONE /\ HasSignature(req[i]) /\ DictOk(req[i].signature))
        => LET payload == req[i].body
               header == req[i].signature
               at == req[i].at
           IN  /\ (resp[i] = 200) <=> Authentic(payload, header, at)
               /\ (resp[i] = 401) <=> ~Authentic(payload, header, at)
               /\ VerifySignature(payload, header, at) <=> Authentic(payload, header, at)
               /\ resp[i] = 200
                  => /\ \A b \in SignedBodies \ { payload } :
                            ~VerifySignature(b, header, at)
                     /\ \A v \in { "forged", Sig(payload, "699"), "" } :
                            ~VerifySignature(payload,
                                             << Pair("t", DictGet(header, "t")), Pair("v0", v) >>, at)
                     /\ \A t \in { "699", "1301" } :
                            ~VerifySignature(payload, SignedHeader(payload, t), at)

\* requests at both edges of the window were accepted
C19_Witness ==
    /\ SIGNING_SECRET # NONE
    /\ \E i, j \in DOMAIN req :
          /\ resp[i] = 200 /\ DictGet(req[i].signature, "t") = "700"
          /\ resp[j] = 200 /\ DictGet(req[j].signature, "t") = "1300"

----------------------------------------------------------------------------
(* C20 *)

\* C20: verify_signature never raises: a request with a malformed header,
\* and any signed request while the signing secret is unset, is answered
\* 401, never with the 500 of an escaped exception.
C20_VerifyNeverRaises ==
    \A i \in DOMAIN req :
        /\ ~VerifyRaises(req[i].body, req[i].signature, req[i].at)
        /\ resp[i] # 500
        /\ (req[i].signature \in MalformedHeaders \/ SIGNING_SECRET = NONE)
           => (resp[i] = 401 /\ ~VerifySignature(req[i].body, req[i].signature, req[i].at))

\* with the secret unset, a malformed and a correctly signed request were
\* both rejected
C20_Witness ==
    /\ SIGNING_SECRET = NONE
    /\ \E i, j \in DOMAIN req :
          /\ resp[i] = 401 /\ ~DictOk(req[i].signature)
          /\ resp[j] = 401 /\ req[j].signature = SignedHeader(req[j].body, "1000")

----------------------------------------------------------------------------
(* contains_blocked_content on its own: the process has loaded one of the   *)
(* configurations below, one run stands at the generation step with one of  *)
(* the messages, and the backend answers with one of the raw replies.       *)

FilterConfigs ==
    { ConfigYaml, Config({ << "BadTopic" >> }),
      Config({ << "other" >>, << "BADTOPIC" >> }), Config({ }) }
FilterBodies ==
    { "e1", "e2", "e_upper", "e_age", "e_agefar", "t_mentions", "t_hiking",
      "t_170", "t_18", "t_after_in", "t_after_out", "t_before_in",
      "t_before_out", "t_photo", "t_caps", "t_second", "t_topic" }
FilterResponses ==
    { HttpError,
      Completion(<< "Hey" >>),
      Completion(<< "so", " ", "BadTopic" >>),
      Completion(<< "15", " ", "sexy" >>),
      Completion(<< "15", " ", "filler46", " ", "sex" >>),
      Completion(<< "class", " ", "filler45", " ", "7" >>) }

InitFilter ==
    /\ now = 1000
    /\ SIGNING_SECRET = FANVUE_WEBHOOK_SECRET
    /\ config \in FilterConfigs
    /\ calls = << >>
    /\ \E b \in FilterBodies :
          /\ req = << [ signature |-> SignedHeader(b, "1000"), body |-> b, at |-> 1000 ] >>
          /\ messages = { MessageRow(MsgId(1), FanId(1), "user", IncomingText(1)) }
          /\ timeline = << MsgId(1), TxnOf(1) >>
          /\ chat_history = << SelectHistory(messages, timeline, FanId(1)) >>
    /\ resp = << 200 >>
    /\ pc = << "Generating" >>
    /\ err = << NONE >>
    /\ conn = << "open" >>
    /\ fan_lore = { FanRow("f1", << "Unknown" >>, << >>, "Friendly") }
    /\ lore = << FanRow("f1", << "Unknown" >>, << >>, "Friendly") >>
    /\ updated_lore = << << >> >>
    /\ reply_text = << << >> >>
    /\ llm = << NoLlm >>
    /\ token_cache = [ token |-> NONE, expires_at |-> 0 ]
    /\ sent = << >>
    /\ propagated = { }

NextFilter ==
    \E r \in FilterResponses, safe \in safe_responses : Generating(1, r, safe)

SpecFilter == InitFilter /\ [][NextFilter]_vars

----------------------------------------------------------------------------
(* C21 *)

\* the topic occurs in the text when letter case is ignored on both sides
OccursIgnoringCase(text, topic) == Contains(Lower(text), Lower(topic))
HasTopic(text) == \E topic \in blocked_topics : OccursIgnoringCase(text, topic)

\* C21: whatever the letter case of a configured topic and of the text, a
\* text in which the topic occurs ignoring case is blocked: an inbound
\* message with such a topic, and a raw reply with such a topic, both end
\* in a safe response.
C21_TopicCaseInsensitive ==
    [][ \A i \in Tasks, r \in FilterResponses, safe \in safe_responses :
          Generating(i, r, safe)
          => /\ HasTopic(IncomingText(i)) => reply_text'[i] \in safe_responses
             /\ (r.status = "200" /\ HasTopic(r.content))
                => reply_text'[i] \in safe_responses ]_vars

----------------------------------------------------------------------------
(* C22 *)

\* the value of a numeral
NumeralTable ==
    { << "0", 0 >>, << "5", 5 >>, << "7", 7 >>, << "07", 7 >>, << "15", 15 >>,
      << "17", 17 >>, << "18", 18 >> }
\* token i is a numeral of value 0 to 17 that stands alone: no word
\* character touches it
StandaloneAge(s, i) ==
    /\ \E p \in NumeralTable : p[1] = s[i] /\ p[2] >= 0 /\ p[2] <= 17
    /\ i > 1 => s[i - 1] \in Whitespace \cup { "*" }
    /\ i < Len(s) => s[i + 1] \in Whitespace \cup { "*" }
\* an inappropriate term lies entirely between 50 characters before an age
\* token and 50 characters after it, in the lowercased text
AgeRule(text) ==
    LET s == Lower(text)
    IN  \E i, j \in 1 .. Len(s), p \in TermTable :
            /\ StandaloneAge(s, i)
            /\ s[j] = p[1]
            /\ StartOf(s, j) + p[2] >= StartOf(s, i) - 50
            /\ StartOf(s, j) + p[2] + p[3] <= EndOf(s, i) + 50

----------------------------------------------------------------------------
(* C23 *)

\* the step is a call of get_fanvue_token, and the call it starts
Called ==
    Len(calls') = Len(calls) + 1 /\ calls'[Len(calls')].fn = "get_fanvue_token"
NewCall == calls'[Len(calls')]
\* the call whose token request the platform answered with this token
IssuedTo(token) == CHOOSE c \in DOMAIN calls : calls[c].data.access_token = token
\* the time at which the platform stops accepting the token
RealExpiry(token) ==
    calls[IssuedTo(token)].issued_at + ExpiresInOf(calls[IssuedTo(token)])
\* the time the token request of the token took
RequestTime(token) ==
    calls[IssuedTo(token)].stored_at - calls[IssuedTo(token)].issued_at

\* get_fanvue_token sends a token request exactly when no token is cached
\* or the time has reached expires_at, and else returns the cached token
RefreshesLazily ==
    Called
    => /\ (NewCall.pc = "Requesting")
          <=> (token_cache.token = NONE \/ now >= token_cache.expires_at)
       /\ NewCall.pc # "Requesting"
          => (NewCall.pc = "done" /\ NewCall.cached /\ NewCall.result = token_cache.token)
\* a refresh stores the token with the time of the refresh plus expires_in
\* (86400 when the answer has none) less 300
StoresWithMargin ==
    \A c \in DOMAIN calls :
        (calls[c].fn = "get_fanvue_token" /\ calls[c].pc = "StoringExpiry"
           /\ calls'[c].pc # calls[c].pc)
        => token_cache' =
              [ token |-> calls[c].data.access_token,
                expires_at |-> now + (IF calls[c].data.expires_in = NoExpiresIn
                                      THEN 86400 ELSE calls[c].data.expires_in) - 300 ]
\* a failed token request raises and leaves the cache as it was
FailureKeepsCache ==
    \A c \in DOMAIN calls :
        (calls[c].pc = "Requesting" /\ calls'[c].pc = "done")
        => (calls'[c].result \in TokenFailures /\ token_cache' = token_cache)

\* C23: get_fanvue_token refreshes lazily with a 5-minute margin, a failed
\* refresh raises and leaves the cache unchanged, and every token returned
\* from the cache has at least 300 seconds of real validity left.
C23_LazyRefreshWithMargin ==
    [][ /\ RefreshesLazily
        /\ StoresWithMargin
        /\ FailureKeepsCache
        /\ (Called /\ NewCall.cached)
           => RealExpiry(token_cache.token) - now >= 300 ]_vars

\* C23 (amended): as C23, but a token returned from the cache has at least
\* 300 seconds of real validity left less the time its token request took.
C23_LazyRefreshWithMarginLessRequestTime ==
    [][ /\ RefreshesLazily
        /\ StoresWithMargin
        /\ FailureKeepsCache
        /\ (Called /\ NewCall.cached)
           => /\ now < token_cache.expires_at
              /\ RealExpiry(token_cache.token) - now
                    >= 300 - RequestTime(token_cache.token) ]_vars

\* a token whose request took time was returned from the cache, and a
\* failed refresh left a token in the cache
C23_Witness ==
    \E c, d \in DOMAIN calls :
        /\ calls[c].cached
        /\ RequestTime(calls[c].result) > 0
        /\ calls[d].fn = "get_fanvue_token" /\ calls[d].result \in TokenFailures
        /\ token_cache.token # NONE

----------------------------------------------------------------------------
(* C24 *)

\* the pairs one writer wrote together, and the initial pair
WrittenPairs ==
    { [ token |-> NONE, expires_at |-> 0 ] }
    \cup { [ token |-> calls[c].data.access_token, expires_at |-> calls[c].expires_at ] :
             c \in { k \in DOMAIN calls : calls[k].pc \in { "Returning", "done" }
                                          /\ calls[k].data # NoData } }

\* C24: whatever writers ran before it or are under way, a call of
\* get_fanvue_token reads a token and an expires_at that one writer wrote
\* together; a token returned from the cache is the token of that pair.
C24_NoTornRead ==
    [][ Called
        => /\ token_cache \in WrittenPairs
           /\ NewCall.cached
              => \E c \in DOMAIN calls :
                    /\ calls[c].pc \in { "Returning", "done" }
                    /\ NewCall.result = calls[c].data.access_token
                    /\ token_cache.expires_at = calls[c].expires_at ]_vars

\* get_fanvue_token refreshed, a handler then wrote the cache, and a later
\* call of get_fanvue_token returned the handler's token from the cache
C24_Witness ==
    \E a, b, c \in DOMAIN calls :
        /\ a < b /\ b < c
        /\ calls[a].fn = "get_fanvue_token" /\ calls[a].data # NoData
        /\ calls[b].fn \in { "callback", "refresh" } /\ calls[b].pc = "done"
        /\ calls[c].cached /\ calls[c].result = calls[b].data.access_token

----------------------------------------------------------------------------
(* C25 *)

\* request i is a verified event: its signature is accepted and its body is
\* a JSON object
VerifiedEvent(q) == Verified(q) /\ IsJson(q.body) /\ IsObject(q.body)
\* the type of the event is one of the three message types
IsMessageEvent(q) ==
    Event(q.body).type \in { "message.received", "message.created", "message.recieved" }
\* a run was scheduled for request i
RunScheduled(i) == pc'[i] # "none"

\* C25: a verified event gets a pipeline run exactly when its type is
\* message.received, message.created or message.recieved; an event of
\* another type or of no type is answered 200, never gets a run, and the
\* rows of fan_lore and messages and the sent replies change only in steps
\* of runs of message events.
C25_OnlyMessageEventsRun ==
    [][ /\ \A i \in DOMAIN req' :
              VerifiedEvent(req'[i])
              => /\ RunScheduled(i) <=> IsMessageEvent(req'[i])
                 /\ ~IsMessageEvent(req'[i]) => resp'[i] = 200
        /\ (Len(req') > Len(req) /\ ~IsMessageEvent(req'[Len(req')]))
           => (fan_lore' = fan_lore /\ messages' = messages /\ sent' = sent)
        /\ (fan_lore' # fan_lore \/ messages' # messages \/ sent' # sent)
           => \E i \in DOMAIN req :
                 /\ pc'[i] # pc[i]
                 /\ VerifiedEvent(req[i]) /\ IsMessageEvent(req[i]) ]_vars

\* an event of no type was acknowledged without a run after the run of a
\* message.recieved event had stored its rows
C25_Witness ==
    \E i, j \in DOMAIN req :
        /\ VerifiedEvent(req[i]) /\ Event(req[i].body).type = "message.recieved"
        /\ pc[i] = "Done"
        /\ VerifiedEvent(req[j]) /\ Event(req[j].body).type = NONE
        /\ resp[j] = 200 /\ pc[j] = "none"
        /\ messages # { }

----------------------------------------------------------------------------
(* C26 *)

\* the naming phrases
NamingPhrases ==
    { << "i'm" >>, << "call", " ", "me" >>, << "my", " ", "name", " ", "is" >>,
      << "name's" >>, << "i", " ", "go", " ", "by" >> }
\* token k of s is the first word after a naming phrase
FollowsPhrase(s, k) ==
    /\ IsWord(s[k])
    /\ \E p \in NamingPhrases, i \in 1 .. k - 1 :
          /\ i + Len(p) < k
          /\ SubSeq(s, i, i + Len(p) - 1) = p
          /\ \A j \in i + Len(p) .. k - 1 : s[j] \in Whitespace
\* the names a text gives: each first word after a naming phrase, capitalised
NamesIn(text) ==
    { Capitalize(Lower(text)[k]) : k \in { j \in 1 .. Len(text) : FollowsPhrase(Lower(text), j) } }
NamesInHistory(history) == UNION { NamesIn(history[k].content) : k \in DOMAIN history }

\* C26: extract_fan_name returns a name the message gives when it gives
\* one, else a name the lore gives, else a name a history entry gives, and
\* the empty string when no source gives a name.
C26_NamePrecedence ==
    \A i \in Tasks :
        Generated(i)
        => LET m == NamesIn(IncomingText(i))
               l == NamesIn(updated_lore[i])
               h == NamesInHistory(chat_history[i])
           IN  /\ m # { } => llm[i].fan_name \in m
               /\ (m = { } /\ l # { }) => llm[i].fan_name \in l
               /\ (m = { } /\ l = { } /\ h # { }) => llm[i].fan_name \in h
               /\ (m = { } /\ l = { } /\ h = { }) => llm[i].fan_name = ""

\* the message gives Jay, the lore Max and the history Hey: Jay is returned
C26_Witness ==
    \E i \in Tasks :
        /\ Generated(i)
        /\ NamesIn(IncomingText(i)) = { "Jay" }
        /\ NamesIn(updated_lore[i]) = { "Max" }
        /\ "Hey" \in NamesInHistory(chat_history[i])
        /\ llm[i].fan_name = "Jay"

----------------------------------------------------------------------------
(* C27 *)

\* the placeholder nicknames
Placeholders == { << "Cutie" >>, << "Babe" >>, << "Good", " ", "Looking" >> }
\* a placeholder stands at the head of s
PlaceholderAtHead(s) ==
    { p \in Placeholders : Len(s) >= Len(p) /\ SubSeq(s, 1, Len(p)) = p }
\* s with every occurrence of a placeholder replaced by the name and all
\* other text as it is
RECURSIVE Substituted(_, _)
Substituted(s, fan_name) ==
    IF s = << >> THEN << >>
    ELSE IF PlaceholderAtHead(s) # { }
         THEN << fan_name >>
              \o Substituted(SubSeq(s, Len(CHOOSE p \in PlaceholderAtHead(s) : TRUE) + 1, Len(s)),
                             fan_name)
    ELSE << Head(s) >> \o Substituted(Tail(s), fan_name)
\* the raw reply is accepted: the call succeeded and neither the message
\* nor the raw reply is blocked
Accepted(i, r) ==
    /\ ~ContainsBlockedContent(IncomingText(i))
    /\ r.status = "200"
    /\ ~ContainsBlockedContent(r.content)
\* the accepted reply before the substitution
Cleaned(r) == Strip(CollapseSpace(StripActions(r.content)))

\* C27: for an accepted reply and a non-empty name the returned reply is
\* the reply with every placeholder occurrence replaced by the name and
\* nothing else changed; with an empty name it is the reply unchanged; a
\* safe response or a fallback string is returned as it is.
C27_NicknameSubstitution ==
    [][ \A i \in Tasks, r \in AllReplyResponses, safe \in safe_responses :
          Generating(i, r, safe)
          => /\ (Accepted(i, r) /\ llm'[i].fan_name # "")
                => reply_text'[i] = Substituted(Cleaned(r), llm'[i].fan_name)
             /\ (Accepted(i, r) /\ llm'[i].fan_name = "")
                => reply_text'[i] = Cleaned(r)
             /\ ~Accepted(i, r)
                => reply_text'[i] \in { safe } \cup Fallbacks ]_vars

----------------------------------------------------------------------------
(* C28 *)

\* s holds a span enclosed by a pair of asterisks
HasEnclosedSpan(s) ==
    \E a, b \in 1 .. Len(s) :
        /\ a + 1 < b
        /\ s[a] = "*" /\ s[b] = "*"
        /\ \A j \in a + 1 .. b - 1 : s[j] # "*"
\* s holds two whitespace characters in a row
HasWhitespaceRun(s) ==
    \E a \in 1 .. Len(s) - 1 : s[a] \in Whitespace /\ s[a + 1] \in Whitespace
\* s begins or ends with whitespace
HasOuterWhitespace(s) ==
    s # << >> /\ (s[1] \in Whitespace \/ s[Len(s)] \in Whitespace)

\* C28: a reply returned for an accepted raw reply holds no span enclosed
\* by a pair of asterisks, no run of two or more whitespace characters and
\* no leading or trailing whitespace.
C28_AcceptedReplyClean ==
    [][ \A i \in Tasks, r \in AllReplyResponses, safe \in safe_responses :
          (Generating(i, r, safe) /\ Accepted(i, r))
          => /\ ~HasEnclosedSpan(reply_text'[i])
             /\ ~HasWhitespaceRun(reply_text'[i])
             /\ ~HasOuterWhitespace(reply_text'[i]) ]_vars

----------------------------------------------------------------------------
(* C29 *)

\* C29: the reply returned for an accepted raw reply, after the stripping,
\* the collapsing and the substitution, is not blocked by the filter.
C29_ReturnedReplyPassesFilter ==
    [][ \A i \in Tasks, r \in AllReplyResponses, safe \in safe_responses :
          (Generating(i, r, safe) /\ Accepted(i, r))
          => ~ContainsBlockedContent(reply_text'[i]) ]_vars

----------------------------------------------------------------------------
(* The generation step after the history step: one run stands at the        *)
(* generation step with the history that the history step built from a      *)
(* database holding the fan's earlier messages and the inbound message.     *)

PromptBodies == { "e1", "e_name", "e2", "e_age" }
PromptLore == { << >>, << "likes hiking" >> }

InitPrompt ==
    /\ now = 1000
    /\ SIGNING_SECRET = FANVUE_WEBHOOK_SECRET
    /\ config = ConfigYaml
    /\ calls = << >>
    /\ \E n \in 0 .. MaxEarlier, b \in PromptBodies, l \in PromptLore :
          /\ req = << [ signature |-> SignedHeader(b, "1000"), body |-> b, at |-> 1000 ] >>
          /\ fan_lore = { FanRow(FanId(1), << "Unknown" >>, l, "Friendly") }
          /\ lore = << FanRow(FanId(1), << "Unknown" >>, l, "Friendly") >>
          /\ updated_lore = << l >>
          /\ messages = { [ EarlierMessage(k) EXCEPT !.fan_id = FanId(1) ] : k \in 1 .. n }
                          \cup { MessageRow(MsgId(1), FanId(1), "user", IncomingText(1)) }
          /\ timeline = [ k \in 1 .. n |-> EarlierMessage(k).id ] \o << MsgId(1), TxnOf(1) >>
          /\ chat_history = << SelectHistory(messages, timeline, FanId(1)) >>
    /\ resp = << 200 >>
    /\ pc = << "Generating" >>
    /\ err = << NONE >>
    /\ conn = << "open" >>
    /\ reply_text = << << >> >>
    /\ llm = << NoLlm >>
    /\ token_cache = [ token |-> NONE, expires_at |-> 0 ]
    /\ sent = << >>
    /\ propagated = { }

NextPrompt ==
    \E r \in ReplyResponses, safe \in safe_responses : Generating(1, r, safe)

SpecPrompt == InitPrompt /\ [][NextPrompt]_vars

----------------------------------------------------------------------------
(* C30 *)

\* the turn the inbound message makes
InboundTurn(i) == [ role |-> "user", content |-> IncomingText(i) ]
\* the last (at most) n entries of a sequence
Latest(seq, n) == [ k \in 1 .. (IF Len(seq) < n THEN Len(seq) ELSE n) |->
                      seq[Len(seq) - (IF Len(seq) < n THEN Len(seq) ELSE n) + k] ]
\* the request is one system instruction, the latest (at most) 5 turns of
\* the history, and the inbound message as the last turn
WellFormedRequest(request, i) ==
    /\ Len(request) >= 2
    /\ request[1].role = "system"
    /\ \A k \in 2 .. Len(request) : request[k].role # "system"
    /\ SubSeq(request, 2, Len(request) - 1) = Latest(chat_history[i], 5)
    /\ request[Len(request)] = InboundTurn(i)

\* C30: the persona completion request is one system instruction, then at
\* most 5 prior turns, the latest of the history in its order, then the
\* inbound message as the last user turn, and the inbound message is in
\* the request exactly once.
C30_RequestHoldsInboundOnce ==
    [][ \A i \in Tasks, r \in ReplyResponses, safe \in safe_responses :
          (Generating(i, r, safe) /\ CallsBackend(IncomingText(i)))
          => /\ WellFormedRequest(llm'[i].request, i)
             /\ Cardinality({ k \in DOMAIN llm'[i].request :
                                 llm'[i].request[k] = InboundTurn(i) }) = 1 ]_vars

----------------------------------------------------------------------------
(* C31 *)

\* the stored message rows stay as they are, in their order of creation
MessagesAppendOnly ==
    /\ messages \subseteq messages'
    /\ \A m1, m2 \in messages :
          CreatedAt(timeline, m1.id) < CreatedAt(timeline, m2.id)
          => CreatedAt(timeline', m1.id) < CreatedAt(timeline', m2.id)
\* every stored fan row stays, one per fan, with its fan_id and last_vibe
FanRowsKept ==
    /\ \A row \in fan_lore :
          \E new \in fan_lore' : new.fan_id = row.fan_id /\ new.last_vibe = row.last_vibe
    /\ \A r1, r2 \in fan_lore' : r1.fan_id = r2.fan_id => r1 = r2
\* the rows the step created or changed
WrittenMessages == messages' \ messages
WrittenFanRows == fan_lore' \ fan_lore
\* the step is a step of run i and writes rows of i's fan only
StepOfRunFor(i) ==
    /\ pc'[i] # pc[i]
    /\ \A m \in WrittenMessages : m.fan_id = FanId(i)
    /\ \A row \in WrittenFanRows : row.fan_id = FanId(i)

\* C31: a step never changes or removes a stored message row or the order
\* of creation of the stored rows, never removes a fan row or changes its
\* fan_id or last_vibe, and whatever it writes (a created fan row, an
\* inserted message row, a new lore_text or name) is written by a run for
\* the fan that owns the row, whatever runs for other fans are under way.
C31_RunWritesOwnFanOnly ==
    [][ /\ MessagesAppendOnly
        /\ FanRowsKept
        /\ (WrittenMessages # { } \/ WrittenFanRows # { })
           => \E i \in Tasks : StepOfRunFor(i) ]_vars

\* runs for two fans went on side by side: one fan's lore was updated while
\* the other fan's run was under way, and both fans have stored rows
C31_Witness ==
    \E i, j \in Tasks :
        /\ FanId(i) # FanId(j)
        /\ pc[i] = "Done" /\ pc[j] \in { "Generating", "PersistingOutbound", "Delivering" }
        /\ SelectFan(fan_lore, FanId(i)).lore_text # << >>
        /\ SelectFan(fan_lore, FanId(j)).lore_text = << >>
        /\ \E m \in messages : m.fan_id = FanId(i) /\ m.role = "assistant"
        /\ \E m \in messages : m.fan_id = FanId(j)

----------------------------------------------------------------------------
(* The pipeline under its scheduling: every run is a task of the event loop *)
(* (background_tasks.add_task, listener.py:397), and each of its steps is a *)
(* collaborator call that returns or fails (the HTTP calls carry            *)
(* timeout=30), so a run that can take a step takes one.  The persona call  *)
(* can also time out.                                                       *)

LiveReplyResponses == ReplyResponses \cup { Timeout }
\* The requests the environment sends: message events of two fans, one
\* without a text, an event of another type, and an unsigned request
LiveRequests ==
    { Request(SignedHeader(b, "1000"), b) : b \in { "e1", "e2", "e_notext", "e_other" } }
    \cup { Request(NoHeader, "e1") }

\* a step of run i
RunStep(i) ==
    /\ i \in Tasks
    /\ \/ \E connected \in BOOLEAN : Start(i, connected)
       \/ \E out \in DbReads : LoadingFanState(i, out)
       \/ \E out \in DbOutcomes : CreatingFan(i, out)
       \/ \E out \in DbReads : ReloadingFan(i, out)
       \/ \E out \in DbOutcomes : PersistingInbound(i, out)
       \/ \E out \in DbReads : BuildingHistory(i, out)
       \/ \E r \in LoreResponses, out \in DbOutcomes : UpdatingLore(i, r, out)
       \/ \E out \in DbOutcomes : UpdatingName(i, out)
       \/ \E r \in LiveReplyResponses, safe \in safe_responses : Generating(i, r, safe)
       \/ \E out \in DbOutcomes : PersistingOutbound(i, out)
       \/ \E r \in TokenResponses : Delivering(i, r)
       \/ \E out \in SendOutcomes : Sending(i, out)

NextLive ==
    \/ \E q \in LiveRequests : FanvueWebhook(q)
    \/ \E i \in 1 .. MaxRequests : RunStep(i)

SpecLive ==
    Init /\ [][NextLive]_vars /\ \A i \in 1 .. MaxRequests : WF_vars(RunStep(i))

----------------------------------------------------------------------------
(* C32 *)

\* run i has ended
Ended(i) == i \in Tasks /\ pc[i] \in { "Done", "Failed" }
\* a run that has ended takes no further step, and a run starts only with
\* a request the webhook accepts
NoRerun ==
    /\ \A i \in Tasks : Ended(i) => (pc'[i] = pc[i] /\ err'[i] = err[i])
    /\ Len(pc') > Len(pc) => Len(req') > Len(req)
    /\ Len(pc') <= Len(pc) + 1
\* a timeout of the persona call gives the fallback reply and a timeout of
\* the lore call gives no new information; the run goes on
TimeoutIsFailureBranch ==
    \A i \in Tasks :
        /\ \A safe \in safe_responses :
              (Generating(i, Timeout, safe) /\ CallsBackend(IncomingText(i)))
              => (reply_text'[i] = FallbackTimeout /\ pc'[i] = "PersistingOutbound")
        /\ UpdatingLore(i, Timeout, "ok")
           => (GenerateLoreUpdate(Timeout) = NO_NEW_INFO /\ pc'[i] = "UpdatingName"
               /\ fan_lore' = fan_lore)

\* C32: every scheduled run eventually reaches Done or Failed when each of
\* its collaborator calls returns or fails; a timeout of a completion call
\* is a failure branch the run goes on from; a run that has ended, with
\* whatever progress, takes no further step and is not started again.
C32_RunsEndAndStayEnded ==
    /\ \A i \in 1 .. MaxRequests :
          (i \in Tasks /\ pc[i] = "Scheduled") ~> Ended(i)
    /\ [][ NoRerun /\ TimeoutIsFailureBranch ]_vars

\* a run ended in Failed with its inbound message stored and no reply
\* stored, and another run went on after a timeout of the persona call
C32_Witness ==
    \E i, j \in Tasks :
        /\ pc[i] = "Failed"
        /\ \E m \in messages : m.id = MsgId(i) /\ m.fan_id = FanId(i)
        /\ ~\E m \in messages : m.fan_id = FanId(i) /\ m.role = "assistant"
        /\ pc[j] = "Done"
        /\ \E m \in messages : m.fan_id = FanId(j) /\ m.content = FallbackTimeout

====
